---------------------------- MODULE Spec2Model ----------------------------
(***************************************************************************)
(* A model of the QIF codec (src/src/quicken.rs), of the record model it   *)
(* builds (src/src/data.rs) and of the analysis engine that reads it       *)
(* (src/src/analysis.rs).                                                  *)
(*                                                                         *)
(* Text is modelled at character level: a line is a sequence of one-       *)
(* character strings, and a document text is the sequence of lines that    *)
(* str::lines() yields for it.  Indices are 1-based here and 0-based in    *)
(* the source, so the source's `i < lines.len()` reads `i <= Len(lines)`.  *)
(* Decimals are whole numbers (no fractional digits are drawn), dates are  *)
(* calendar days with a second-of-day, and Uuid::new_v4() is a fresh       *)
(* number taken from a counter.  The created_at / updated_at stamps and    *)
(* the write-only account_map of parse_qif_content are left out.           *)
(***************************************************************************)
EXTENDS Integers, Sequences, FiniteSets, TLC

(***************************************************************************)
(* Characters and strings                                                  *)
(***************************************************************************)

Digits == <<"0", "1", "2", "3", "4", "5", "6", "7", "8", "9">>

UpperCase == <<"A", "B", "C", "D", "E", "F", "G", "H", "I", "J", "K", "L", "M",
               "N", "O", "P", "Q", "R", "S", "T", "U", "V", "W", "X", "Y", "Z">>

LowerCase == <<"a", "b", "c", "d", "e", "f", "g", "h", "i", "j", "k", "l", "m",
               "n", "o", "p", "q", "r", "s", "t", "u", "v", "w", "x", "y", "z">>

IsDigit(c) == \E k \in 1..10 : Digits[k] = c

DigitVal(c) == (CHOOSE k \in 1..10 : Digits[k] = c) - 1

\* char::to_lowercase on the characters of the model's alphabet
LowerChar(c) ==
    IF \E k \in 1..26 : UpperCase[k] = c
    THEN LowerCase[CHOOSE k \in 1..26 : UpperCase[k] = c]
    ELSE c

\* str::to_lowercase
to_lowercase(s) == [k \in 1..Len(s) |-> LowerChar(s[k])]

IsSpace(c) == c = " "

RECURSIVE trim_start(_)
trim_start(s) ==
    IF s # <<>> /\ IsSpace(Head(s)) THEN trim_start(Tail(s)) ELSE s

RECURSIVE trim_end(_)
trim_end(s) ==
    IF s # <<>> /\ IsSpace(s[Len(s)])
    THEN trim_end(SubSeq(s, 1, Len(s) - 1))
    ELSE s

\* str::trim
trim(s) == trim_end(trim_start(s))

\* str::starts_with
starts_with(s, p) == Len(s) >= Len(p) /\ SubSeq(s, 1, Len(p)) = p

\* the remainder handed out by str::strip_prefix when starts_with holds
strip_prefix(s, p) == SubSeq(s, Len(p) + 1, Len(s))

\* str::replace(c, "")
RECURSIVE remove_char(_, _)
remove_char(s, c) ==
    IF s = <<>> THEN <<>>
    ELSE IF Head(s) = c THEN remove_char(Tail(s), c)
    ELSE <<Head(s)>> \o remove_char(Tail(s), c)

\* Option<T>: None is the empty sequence, Some(x) the one-element sequence
None == <<>>

Some(x) == <<x>>

IsSome(o) == o # <<>>

Unwrap(o) == o[1]


(***************************************************************************)
(* Decimals: rust_decimal's FromStr and Display on whole numbers           *)
(***************************************************************************)

RECURSIVE digits_value(_, _)
digits_value(s, acc) ==
    IF s = <<>> THEN acc
    ELSE digits_value(Tail(s), 10 * acc + DigitVal(Head(s)))

AllDigits(s) == \A k \in 1..Len(s) : IsDigit(s[k])

\* str::parse::<Decimal>: an optional sign, then at least one digit
ParseDecimal(s) ==
    LET signed == s # <<>> /\ (Head(s) = "-" \/ Head(s) = "+")
        body == IF signed THEN Tail(s) ELSE s
    IN  IF body = <<>> \/ ~AllDigits(body)
        THEN [ok |-> FALSE, val |-> 0]
        ELSE [ok |-> TRUE,
              val |-> IF signed /\ Head(s) = "-"
                      THEN 0 - digits_value(body, 0)
                      ELSE digits_value(body, 0)]

RECURSIVE FormatNat(_)
FormatNat(n) ==
    IF n < 10 THEN <<Digits[n + 1]>>
    ELSE FormatNat(n \div 10) \o <<Digits[(n % 10) + 1]>>

\* format!("{}", amount)
FormatDecimal(v) == IF v < 0 THEN <<"-">> \o FormatNat(0 - v) ELSE FormatNat(v)

\* Decimal::abs
Abs(v) == IF v < 0 THEN 0 - v ELSE v

(***************************************************************************)
(* Dates: chrono's NaiveDate::parse_from_str and DateTime::format          *)
(***************************************************************************)

\* the number of leading digits of s, at most max
digit_run(s, max) ==
    CHOOSE k \in 0..Len(s) :
        /\ k <= max
        /\ \A j \in 1..k : IsDigit(s[j])
        /\ (k = max \/ k = Len(s) \/ ~IsDigit(s[k + 1]))

take_number(s, min, n) ==
    IF n < min
    THEN [ok |-> FALSE, val |-> 0, rest |-> s]
    ELSE [ok |-> TRUE, val |-> digits_value(SubSeq(s, 1, n), 0),
          rest |-> SubSeq(s, n + 1, Len(s))]

\* chrono's scan::number: between min and max leading digits
scan_number(s, min, max) == take_number(s, min, digit_run(s, max))

IsLeapYear(y) == (y % 4 = 0 /\ y % 100 # 0) \/ y % 400 = 0

DaysInMonth(y, m) ==
    IF m = 2 THEN (IF IsLeapYear(y) THEN 29 ELSE 28)
    ELSE IF m \in {4, 6, 9, 11} THEN 30 ELSE 31

\* NaiveDate::from_ymd_opt(..).is_some()
ValidDate(y, m, d) == m \in 1..12 /\ d >= 1 /\ d <= DaysInMonth(y, m)

NoDate == [ok |-> FALSE, year |-> 0, month |-> 0, day |-> 0]

IsNumericItem(it) == it \in {"%m", "%d", "%y", "%Y"}

\* the most digits a numeric item reads
item_width(it) == IF it = "%Y" THEN 4 ELSE 2

\* the field a numeric item sets; %y is a year of the century around 2000
set_item(acc, it, val) ==
    IF it = "%m" THEN [acc EXCEPT !.month = val]
    ELSE IF it = "%d" THEN [acc EXCEPT !.day = val]
    ELSE IF it = "%y"
         THEN [acc EXCEPT !.year = IF val < 70 THEN 2000 + val ELSE 1900 + val]
    ELSE [acc EXCEPT !.year = val]

\* One strftime format, item by item: a numeric item reads a number, any
\* other item is a literal the text must continue with, and no text may be
\* left at the end.  acc holds the fields read so far.
RECURSIVE parse_items(_, _, _)
RECURSIVE numeric_item(_, _, _)
parse_items(s, items, acc) ==
    IF items = <<>>
    THEN [ok |-> s = <<>> /\ ValidDate(acc.year, acc.month, acc.day),
          year |-> acc.year, month |-> acc.month, day |-> acc.day]
    ELSE IF IsNumericItem(Head(items))
         THEN numeric_item(scan_number(s, 1, item_width(Head(items))), items, acc)
    ELSE IF s # <<>> /\ Head(s) = Head(items)
         THEN parse_items(Tail(s), Tail(items), acc)
    ELSE NoDate

numeric_item(r, items, acc) ==
    IF ~r.ok THEN NoDate
    ELSE parse_items(r.rest, Tail(items), set_item(acc, Head(items), r.val))

\* NaiveDate::parse_from_str
parse_from_str(s, fmt) ==
    parse_items(s, fmt, [year |-> 0, month |-> 0, day |-> 0])

\* the formats array of parse_qif_date, in its order
formats == << <<"%m", "/", "%d", "/", "%Y">>,
              <<"%m", "/", "%d", "/", "%y">>,
              <<"%m", "-", "%d", "-", "%Y">>,
              <<"%m", "-", "%d", "-", "%y">>,
              <<"%Y", "-", "%m", "-", "%d">> >>

\* naive_date.and_hms_opt(0, 0, 0).unwrap().and_utc()
at_midnight(nd) ==
    [ok |-> TRUE,
     val |-> [year |-> nd.year, month |-> nd.month, day |-> nd.day, secs |-> 0]]

\* the result of the first format that parsed, an error when none did
first_parsed(results) ==
    IF \A k \in 1..Len(results) : ~results[k].ok
    THEN [ok |-> FALSE, val |-> [year |-> 0, month |-> 0, day |-> 0, secs |-> 0]]
    ELSE at_midnight(results[CHOOSE k \in 1..Len(results) :
                         results[k].ok /\ \A j \in 1..(k - 1) : ~results[j].ok])

\* QifImporter::parse_qif_date: the formats are tried in order and the
\* first that parses wins
try_formats(cleaned) ==
    first_parsed([k \in 1..Len(formats) |-> parse_from_str(cleaned, formats[k])])

parse_qif_date(date_str) == try_formats(remove_char(trim(date_str), "'"))

Pad(s, width) == [k \in 1..(width - Len(s)) |-> "0"] \o s

\* transaction.date.format("%m/%d/%Y")
FormatDate(dt) ==
    Pad(FormatNat(dt.month), 2) \o <<"/">> \o Pad(FormatNat(dt.day), 2)
        \o <<"/">> \o Pad(FormatNat(dt.year), 4)

\* Utc::now(): the day the program runs, at some second after midnight
Now == [year |-> 2026, month |-> 11, day |-> 2, secs |-> 34200]

\* the calendar day of a timestamp
Day(dt) == <<dt.year, dt.month, dt.day>>


(***************************************************************************)
(* Record model (src/src/data.rs)                                          *)
(***************************************************************************)

\* AccountType: a unit variant carries the empty text, Other(s) carries s
AccountType(tag, text) == [tag |-> tag, text |-> text]

\* Account::new; id is the value Uuid::new_v4() returned
Account_new(id, name, account_type, balance, currency) ==
    [id |-> id, name |-> name, account_type |-> account_type,
     institution |-> None, account_number |-> None,
     balance |-> balance, currency |-> currency]

\* Transaction::new; id is the value Uuid::new_v4() returned
Transaction_new(id, account_id, date, amount, description, transaction_type) ==
    [id |-> id, account_id |-> account_id, date |-> date, amount |-> amount,
     description |-> description, category |-> None, payee |-> None,
     memo |-> None, cleared |-> FALSE, reconciled |-> FALSE,
     transaction_type |-> transaction_type]

\* Transaction::mark_cleared
mark_cleared(t) == [t EXCEPT !.cleared = TRUE]

\* A faulty variant: the cleared flag is left alone.
mark_reconciled_only(t) == [t EXCEPT !.reconciled = TRUE]

\* Transaction::mark_reconciled
mark_reconciled(t) == [t EXCEPT !.reconciled = TRUE, !.cleared = TRUE]

\* FinancialData::new
FinancialData_new ==
    [accounts |-> <<>>, transactions |-> <<>>, categories |-> <<>>, payees |-> <<>>]

\* Vec::contains
contains(v, x) == \E k \in 1..Len(v) : v[k] = x

\* FinancialData::add_account
add_account(data, account) ==
    [data EXCEPT !.accounts = Append(@, account)]

\* A faulty variant: a label is appended whether or not the list holds it.
push_label_always(list, label) ==
    IF IsSome(label) THEN Append(list, Unwrap(label)) ELSE list

\* the append-if-absent of add_transaction, for one optional label
push_label(list, label) ==
    IF IsSome(label) /\ ~contains(list, Unwrap(label))
    THEN Append(list, Unwrap(label))
    ELSE list

\* FinancialData::add_transaction
add_transaction(data, transaction) ==
    [data EXCEPT !.categories = push_label(@, transaction.category),
                 !.payees = push_label(@, transaction.payee),
                 !.transactions = Append(@, transaction)]

\* A faulty variant: every transaction is handed out, whoever owns it.
get_all_transactions(data, account_id) == data.transactions

\* FinancialData::get_account_transactions
get_account_transactions(data, account_id) ==
    SelectSeq(data.transactions, LAMBDA t : t.account_id = account_id)

\* A faulty variant: a debit counts like every other kind.
signed_amount_unsigned(t) == t.amount

\* the match of calculate_account_balance on the kind of one transaction
signed_amount(t) ==
    IF t.transaction_type = "Debit" THEN 0 - t.amount ELSE t.amount

\* Iterator::sum over the mapped amounts
RECURSIVE sum_signed(_)
sum_signed(transactions) ==
    IF transactions = <<>> THEN 0
    ELSE signed_amount(Head(transactions)) + sum_signed(Tail(transactions))

\* FinancialData::calculate_account_balance
calculate_account_balance(data, account_id) ==
    sum_signed(get_account_transactions(data, account_id))

(***************************************************************************)
(* Decoder (QifImporter)                                                   *)
(***************************************************************************)

sAccount == <<"!", "A", "c", "c", "o", "u", "n", "t">>

sType == <<"!", "T", "y", "p", "e", ":">>

sUnknown == <<"U", "n", "k", "n", "o", "w", "n">>

sUnknownAccount ==
    <<"U", "n", "k", "n", "o", "w", "n", " ", "A", "c", "c", "o", "u", "n", "t">>

sUSD == <<"U", "S", "D">>

sBank == <<"B", "a", "n", "k">>

\* the match of parse_account_type on the lowercased text
match_account_type(l) ==
    IF l = <<"b", "a", "n", "k">> \/ l = <<"c", "h", "e", "c", "k", "i", "n", "g">>
        THEN AccountType("Checking", <<>>)
    ELSE IF l = <<"s", "a", "v", "i", "n", "g", "s">>
        THEN AccountType("Savings", <<>>)
    ELSE IF l = <<"c", "c", "a", "r", "d">> \/ l = <<"c", "r", "e", "d", "i", "t">>
        THEN AccountType("CreditCard", <<>>)
    ELSE IF l = <<"i", "n", "v", "s", "t">>
            \/ l = <<"i", "n", "v", "e", "s", "t", "m", "e", "n", "t">>
        THEN AccountType("Investment", <<>>)
    ELSE IF l = <<"c", "a", "s", "h">>
        THEN AccountType("Cash", <<>>)
    ELSE IF l = <<"l", "i", "a", "b", "i", "l", "i", "t", "y">>
        THEN AccountType("Liability", <<>>)
    ELSE IF l = <<"a", "s", "s", "e", "t">>
        THEN AccountType("Asset", <<>>)
    ELSE AccountType("Other", l)

\* QifImporter::parse_account_type
parse_account_type(type_str) == match_account_type(to_lowercase(type_str))

\* One pass of the loop body of parse_account_section on a field line: the
\* if / else-if chain on the tag.  The terminator is handled by the loop.
account_field(st, line) ==
    IF starts_with(line, <<"N">>)
    THEN [st EXCEPT !.name = strip_prefix(line, <<"N">>)]
    ELSE IF starts_with(line, <<"T">>)
    THEN [st EXCEPT !.account_type = parse_account_type(strip_prefix(line, <<"T">>))]
    ELSE IF starts_with(line, <<"D">>)
    THEN [st EXCEPT !.description = Some(strip_prefix(line, <<"D">>))]
    ELSE st

\* The while loop of parse_account_section.  st holds the cursor and the
\* local variables name, account_type and description.  The source tests
\* for the terminator after the tags N, T and D; the terminator carries none
\* of them, so the order of the tests does not matter.
RECURSIVE account_loop(_, _)
RECURSIVE account_line(_, _, _)
account_loop(lines, st) ==
    IF ~(st.index <= Len(lines)) THEN st
    ELSE account_line(lines, st, trim(lines[st.index]))

account_line(lines, st, line) ==
    IF line = <<>> \/ starts_with(line, <<"!">>) THEN st
    ELSE IF line = <<"^">> THEN [st EXCEPT !.index = @ + 1]
    ELSE account_loop(lines, [account_field(st, line) EXCEPT !.index = @ + 1])

\* the tail of parse_account_section: Account::new and the institution
build_account(st, id) ==
    [index |-> st.index,
     account |-> [Account_new(id, st.name, st.account_type, 0, sUSD)
                      EXCEPT !.institution = st.description]]

\* QifImporter::parse_account_section; id is the fresh Uuid of Account::new
parse_account_section(lines, index, id) ==
    build_account(
        account_loop(lines,
            [index |-> index, name |-> sUnknownAccount,
             account_type |-> AccountType("Other", sUnknown),
             description |-> None]),
        id)

\* C<content>: the cleared marker test of parse_single_transaction
is_cleared_marker(content) ==
    content = <<"*">> \/ to_lowercase(content) = <<"x">>

\* date = Some(Self::parse_qif_date(content)?)
date_field(st, r) ==
    IF r.ok THEN [st EXCEPT !.date = Some(r.val)] ELSE [st EXCEPT !.ok = FALSE]

\* amount = content.trim().parse::<Decimal>().context(..)?
amount_field(st, r) ==
    IF r.ok THEN [st EXCEPT !.amount = r.val] ELSE [st EXCEPT !.ok = FALSE]

\* A faulty variant: a payee line leaves the description of a record that
\* already has a memo alone.
transaction_field_memo_first(st, line) ==
    IF starts_with(line, <<"D">>)
    THEN date_field(st, parse_qif_date(strip_prefix(line, <<"D">>)))
    ELSE IF starts_with(line, <<"T">>)
    THEN amount_field(st, ParseDecimal(trim(strip_prefix(line, <<"T">>))))
    ELSE IF starts_with(line, <<"P">>)
    THEN [st EXCEPT !.payee = Some(strip_prefix(line, <<"P">>)),
                    !.description = IF IsSome(st.memo) THEN @
                                    ELSE strip_prefix(line, <<"P">>)]
    ELSE IF starts_with(line, <<"L">>)
    THEN [st EXCEPT !.category = Some(strip_prefix(line, <<"L">>))]
    ELSE IF starts_with(line, <<"M">>)
    THEN [st EXCEPT !.memo = Some(strip_prefix(line, <<"M">>)),
                    !.description = strip_prefix(line, <<"M">>)]
    ELSE IF starts_with(line, <<"C">>)
    THEN [st EXCEPT !.cleared = is_cleared_marker(strip_prefix(line, <<"C">>))]
    ELSE st

\* One pass of the loop body of parse_single_transaction on a line that is
\* not the terminator: the if / else-if chain on the tag.  ok = FALSE is
\* the early return of a `?`.
transaction_field(st, line) ==
    IF starts_with(line, <<"D">>)
    THEN date_field(st, parse_qif_date(strip_prefix(line, <<"D">>)))
    ELSE IF starts_with(line, <<"T">>)
    THEN amount_field(st, ParseDecimal(trim(strip_prefix(line, <<"T">>))))
    ELSE IF starts_with(line, <<"P">>)
    THEN [st EXCEPT !.payee = Some(strip_prefix(line, <<"P">>)),
                    !.description = strip_prefix(line, <<"P">>)]
    ELSE IF starts_with(line, <<"L">>)
    THEN [st EXCEPT !.category = Some(strip_prefix(line, <<"L">>))]
    ELSE IF starts_with(line, <<"M">>)
    THEN [st EXCEPT !.memo = Some(strip_prefix(line, <<"M">>)),
                    !.description = strip_prefix(line, <<"M">>)]
    ELSE IF starts_with(line, <<"C">>)
    THEN [st EXCEPT !.cleared = is_cleared_marker(strip_prefix(line, <<"C">>))]
    ELSE st

\* The while loop of parse_single_transaction.  st holds the cursor and the
\* local variables.  An early return leaves the cursor on the line that
\* failed.
RECURSIVE transaction_loop(_, _)
RECURSIVE transaction_line(_, _)
transaction_loop(lines, st) ==
    IF ~(st.index <= Len(lines)) THEN st
    ELSE IF trim(lines[st.index]) = <<"^">> THEN [st EXCEPT !.index = @ + 1]
    ELSE transaction_line(lines, transaction_field(st, trim(lines[st.index])))

transaction_line(lines, st) ==
    IF ~st.ok THEN st
    ELSE transaction_loop(lines, [st EXCEPT !.index = @ + 1])

\* A faulty variant: a zero amount is taken for a debit.
transaction_type_of_strict(amount) == IF amount > 0 THEN "Credit" ELSE "Debit"

\* the kind chosen from the sign of the parsed amount
transaction_type_of(amount) == IF amount >= 0 THEN "Credit" ELSE "Debit"

\* the tail of parse_single_transaction: the date default, the kind,
\* Transaction::new and the optional fields
build_transaction(st, account_id, id) ==
    [ok |-> st.ok, index |-> st.index,
     transaction |->
         [Transaction_new(id, account_id,
                          IF IsSome(st.date) THEN Unwrap(st.date) ELSE Now,
                          Abs(st.amount), st.description,
                          transaction_type_of(st.amount))
              EXCEPT !.payee = st.payee, !.category = st.category,
                     !.memo = st.memo, !.cleared = st.cleared]]

\* QifImporter::parse_single_transaction; id is the fresh Uuid of
\* Transaction::new.  On ok = FALSE the call returned Err and only index,
\* the cursor it left behind, is meaningful.
parse_single_transaction(lines, index, account_id, id) ==
    build_transaction(
        transaction_loop(lines,
            [ok |-> TRUE, index |-> index, date |-> None, amount |-> 0,
             description |-> sUnknown, payee |-> None, category |-> None,
             memo |-> None, cleared |-> FALSE]),
        account_id, id)

\* The while loop of parse_transaction_section.  st holds the cursor, the
\* transactions vector and the Uuid counter, and two records of what the
\* loop did: spans[k] = <<first, next>> are the lines transaction k was read
\* from (first .. next - 1), failures lists the lines at which a record
\* parse returned an error.
RECURSIVE transaction_section_loop(_, _, _)
RECURSIVE after_record(_, _, _, _)
transaction_section_loop(lines, account_id, st) ==
    IF ~(st.index <= Len(lines)) THEN st
    ELSE IF trim(lines[st.index]) = <<>> \/ starts_with(trim(lines[st.index]), <<"!">>)
         THEN st
    ELSE after_record(lines, account_id, st,
             parse_single_transaction(lines, st.index, account_id, st.next_id))

\* if let Ok(transaction) = .. { push } else { *index += 1 }
after_record(lines, account_id, st, r) ==
    IF r.ok
    THEN transaction_section_loop(lines, account_id,
           [st EXCEPT !.transactions = Append(@, r.transaction),
                      !.spans = Append(@, <<st.index, r.index>>),
                      !.next_id = @ + 1,
                      !.index = r.index])
    ELSE transaction_section_loop(lines, account_id,
           [st EXCEPT !.failures = Append(@, r.index),
                      !.index = r.index + 1])

\* QifImporter::parse_transaction_section
parse_transaction_section(lines, index, account_id, next_id) ==
    transaction_section_loop(lines, account_id,
        [index |-> index, transactions |-> <<>>, next_id |-> next_id,
         spans |-> <<>>, failures |-> <<>>])

\* A faulty variant: every type section finds an owner, a nil id when there is none.
account_context_default(current_account) ==
    [ok |-> TRUE,
     id |-> IF IsSome(current_account) THEN Unwrap(current_account).id ELSE 0]

\* A faulty variant: the owner lookup fails although an account is open.
account_context_strict(current_account) ==
    [ok |-> FALSE, id |-> 0]

\* current_account.as_ref().map(|a| a.id).context(..): the owner of a type
\* section, an error when no account section came before
account_context(current_account) ==
    [ok |-> IsSome(current_account),
     id |-> IF IsSome(current_account) THEN Unwrap(current_account).id ELSE 0]

\* for transaction in transactions { data.add_transaction(transaction) }
RECURSIVE add_transactions(_, _)
add_transactions(data, transactions) ==
    IF transactions = <<>> THEN data
    ELSE add_transactions(add_transaction(data, Head(transactions)),
                          Tail(transactions))

\* the state after the !Account branch
after_account(st, r) ==
    [st EXCEPT !.current_account = Some(r.account),
               !.data = add_account(@, r.account),
               !.next_id = @ + 1,
               !.i = r.index]

\* the state after the !Type: branch, when an owner was found
after_section(st, sec) ==
    [st EXCEPT !.data = add_transactions(@, sec.transactions),
               !.spans = @ \o sec.spans,
               !.failures = @ \o sec.failures,
               !.next_id = sec.next_id,
               !.i = sec.index]

\* The while loop of parse_qif_content.  ok = FALSE is the early return of
\* the `?` on the owner lookup.
RECURSIVE scan_loop(_, _)
RECURSIVE type_section(_, _, _)
scan_loop(lines, st) ==
    IF ~(st.i <= Len(lines)) THEN st
    ELSE IF starts_with(trim(lines[st.i]), sAccount)
         THEN scan_loop(lines,
                after_account(st, parse_account_section(lines, st.i + 1, st.next_id)))
    ELSE IF starts_with(trim(lines[st.i]), sType)
         THEN type_section(lines, st, account_context(st.current_account))
    ELSE scan_loop(lines, [st EXCEPT !.i = @ + 1])

type_section(lines, st, ctx) ==
    IF ~ctx.ok THEN [st EXCEPT !.ok = FALSE]
    ELSE scan_loop(lines,
           after_section(st,
               parse_transaction_section(lines, st.i + 1, ctx.id, st.next_id)))

\* QifImporter::parse_qif_content on the lines of the content.  first_id is
\* where the Uuid counter stands.  When ok is FALSE the call returned Err and
\* no document.
parse_qif_content(lines, first_id) ==
    scan_loop(lines,
        [ok |-> TRUE, i |-> 1, data |-> FinancialData_new,
         current_account |-> None, next_id |-> first_id,
         spans |-> <<>>, failures |-> <<>>])

(***************************************************************************)
(* Encoder (QifExporter)                                                   *)
(***************************************************************************)

\* QifExporter::account_type_to_qif
account_type_to_qif(account_type) ==
    CASE account_type.tag = "Checking" -> sBank
      [] account_type.tag = "Savings" -> sBank
      [] account_type.tag = "CreditCard" -> <<"C", "C", "a", "r", "d">>
      [] account_type.tag = "Investment" -> <<"I", "n", "v", "s", "t">>
      [] account_type.tag = "Cash" -> <<"C", "a", "s", "h">>
      [] account_type.tag = "Liability" ->
             <<"L", "i", "a", "b", "i", "l", "i", "t", "y">>
      [] account_type.tag = "Asset" -> <<"A", "s", "s", "e", "t">>
      [] account_type.tag = "Other" -> sBank

\* QifExporter::export_account, as the lines it writes
export_account(account) ==
    <<sAccount, <<"N">> \o account.name,
      <<"T">> \o account_type_to_qif(account.account_type)>>
    \o (IF IsSome(account.institution)
        THEN <<(<<"D">> \o Unwrap(account.institution))>> ELSE <<>>)
    \o << <<"^">> >>

\* A faulty variant: the sign is not reapplied.
export_amount_unsigned(transaction) == transaction.amount

\* the amount export_transaction writes: negative for debits
export_amount(transaction) ==
    IF transaction.transaction_type = "Debit"
    THEN 0 - transaction.amount
    ELSE transaction.amount

\* A faulty variant: the memo line is written before the category line.
export_transaction_memo_first(transaction) ==
    <<(<<"D">> \o FormatDate(transaction.date)),
      (<<"T">> \o FormatDecimal(export_amount(transaction)))>>
    \o (IF IsSome(transaction.payee)
        THEN <<(<<"P">> \o Unwrap(transaction.payee))>> ELSE <<>>)
    \o (IF IsSome(transaction.memo)
        THEN <<(<<"M">> \o Unwrap(transaction.memo))>> ELSE <<>>)
    \o (IF IsSome(transaction.category)
        THEN <<(<<"L">> \o Unwrap(transaction.category))>> ELSE <<>>)
    \o (IF transaction.cleared THEN << <<"C", "*">> >> ELSE <<>>)
    \o << <<"^">> >>

\* QifExporter::export_transaction, as the lines it writes
export_transaction(transaction) ==
    <<(<<"D">> \o FormatDate(transaction.date)),
      (<<"T">> \o FormatDecimal(export_amount(transaction)))>>
    \o (IF IsSome(transaction.payee)
        THEN <<(<<"P">> \o Unwrap(transaction.payee))>> ELSE <<>>)
    \o (IF IsSome(transaction.category)
        THEN <<(<<"L">> \o Unwrap(transaction.category))>> ELSE <<>>)
    \o (IF IsSome(transaction.memo)
        THEN <<(<<"M">> \o Unwrap(transaction.memo))>> ELSE <<>>)
    \o (IF transaction.cleared THEN << <<"C", "*">> >> ELSE <<>>)
    \o << <<"^">> >>

RECURSIVE export_each(_)
export_each(transactions) ==
    IF transactions = <<>> THEN <<>>
    ELSE export_transaction(Head(transactions)) \o export_each(Tail(transactions))

\* QifExporter::export_transactions
export_transactions(transactions, account) ==
    <<(sType \o account_type_to_qif(account.account_type))>>
    \o export_each(transactions)

\* The for loop of export_to_string.  Each push('\n') after a block that
\* ends in a newline is one empty line of the output.
RECURSIVE export_accounts(_, _)
export_accounts(data, accounts) ==
    IF accounts = <<>> THEN <<>>
    ELSE LET account == Head(accounts)
             transactions == get_account_transactions(data, account.id)
         IN  export_account(account) \o << <<>> >>
             \o (IF transactions # <<>>
                 THEN export_transactions(transactions, account) \o << <<>> >>
                 ELSE <<>>)
             \o export_accounts(data, Tail(accounts))

\* QifExporter::export_to_string, as the lines of the string it returns
export_to_string(data) == export_accounts(data, data.accounts)

(***************************************************************************)
(* Analysis engine (src/src/analysis.rs)                                   *)
(*                                                                         *)
(* Amounts are whole numbers.  What a Decimal division yields is kept as   *)
(* an exact quotient in lowest terms (the rounding of rust_decimal at 28   *)
(* digits is left out), and a division by zero, which panics in the        *)
(* source, yields the quotient DivisionByZero, recognizable by den = 0.    *)
(* A HashMap is a function on the set of its keys; the order in which the  *)
(* source iterates over a HashMap or HashSet is an input of the operator.  *)
(***************************************************************************)

DivisionByZero == [num |-> 0, den |-> 0]

\* the quotient took part in a division by zero
Faulted(a) == a.den = 0

\* Decimal::from
Decimal_from(n) == [num |-> n, den |-> 1]

RECURSIVE GCD(_, _)
GCD(a, b) == IF b = 0 THEN a ELSE GCD(b, a % b)

lowest_terms(n, d, g) == [num |-> n \div g, den |-> d \div g]

\* n / d in lowest terms, for d > 0
quotient(n, d) == lowest_terms(n, d, GCD(Abs(n), d))

\* Decimal's `/`
Decimal_div(a, b) ==
    IF Faulted(a) \/ Faulted(b) \/ b.num = 0 THEN DivisionByZero
    ELSE IF b.num < 0 THEN quotient(0 - a.num * b.den, 0 - a.den * b.num)
    ELSE quotient(a.num * b.den, a.den * b.num)

\* Decimal's `*`
Decimal_mul(a, b) ==
    IF Faulted(a) \/ Faulted(b) THEN DivisionByZero
    ELSE quotient(a.num * b.num, a.den * b.den)

\* Decimal's binary `-`
Decimal_sub(a, b) ==
    IF Faulted(a) \/ Faulted(b) THEN DivisionByZero
    ELSE quotient(a.num * b.den - b.num * a.den, a.den * b.den)

\* Decimal's unary `-`
Decimal_neg(a) == [a EXCEPT !.num = 0 - @]

\* Decimal's `>` and `<`
Decimal_gt(a, b) == a.num * b.den > b.num * a.den

Decimal_lt(a, b) == a.num * b.den < b.num * a.den

\* HashMap::new
HashMap_new == [x \in {} |-> 0]

\* map.get(key).unwrap_or(default)
get_or(map, key, default) == IF key \in DOMAIN map THEN map[key] ELSE default

\* map.insert(key, value)
insert(map, key, value) ==
    [x \in DOMAIN map \cup {key} |-> IF x = key THEN value ELSE map[x]]

\* the orders in which an iteration may visit the elements of a hashed
\* collection
Orderings(S) ==
    {q \in [1..Cardinality(S) -> S] : \A i, j \in 1..Cardinality(S) : i # j => q[i] # q[j]}

\* A faulty variant: the year of the transaction is not compared.
in_month_of_any_year(t, year, month) == t.date.month = month

\* the filter of generate_monthly_report
in_month(t, year, month) == t.date.year = year /\ t.date.month = month

\* A faulty variant: every kind but credit counts as an expense.
add_to_totals_rest_expense(st, t) ==
    IF t.transaction_type = "Credit"
    THEN [st EXCEPT !.total_income = @ + t.amount]
    ELSE [st EXCEPT !.total_expenses = @ + t.amount]

\* match transaction.transaction_type { Credit => .., Debit => .., _ => {} }
add_to_totals(st, t) ==
    IF t.transaction_type = "Credit"
    THEN [st EXCEPT !.total_income = @ + t.amount]
    ELSE IF t.transaction_type = "Debit"
    THEN [st EXCEPT !.total_expenses = @ + t.amount]
    ELSE st

\* A faulty variant: only debits enter the category breakdown.
add_to_breakdown_debits(st, t) ==
    IF IsSome(t.category) /\ t.transaction_type = "Debit"
    THEN [st EXCEPT !.category_breakdown =
              insert(@, Unwrap(t.category), get_or(@, Unwrap(t.category), 0) + t.amount)]
    ELSE st

\* if let Some(ref category) = transaction.category { .. insert .. }
add_to_breakdown(st, t) ==
    IF IsSome(t.category)
    THEN [st EXCEPT !.category_breakdown =
              insert(@, Unwrap(t.category), get_or(@, Unwrap(t.category), 0) + t.amount)]
    ELSE st

\* for transaction in &month_transactions { .. }
RECURSIVE report_loop(_, _)
report_loop(transactions, st) ==
    IF transactions = <<>> THEN st
    ELSE report_loop(Tail(transactions),
                     add_to_breakdown(add_to_totals(st, Head(transactions)),
                                      Head(transactions)))

\* the MonthlyReport generate_monthly_report returns
MonthlyReport(year, month, month_transactions, st) ==
    [year |-> year, month |-> month,
     total_income |-> st.total_income,
     total_expenses |-> st.total_expenses,
     net_income |-> st.total_income - st.total_expenses,
     category_breakdown |-> st.category_breakdown,
     transaction_count |-> Len(month_transactions)]

\* the filtered transactions and the loop over them
report_over(year, month, month_transactions) ==
    MonthlyReport(year, month, month_transactions,
        report_loop(month_transactions,
            [total_income |-> 0, total_expenses |-> 0,
             category_breakdown |-> HashMap_new]))

\* AnalysisEngine::generate_monthly_report
generate_monthly_report(d, year, month) ==
    report_over(year, month,
        SelectSeq(d.transactions, LAMBDA t : in_month(t, year, month)))

sUncategorized ==
    <<"U", "n", "c", "a", "t", "e", "g", "o", "r", "i", "z", "e", "d">>

\* transaction.category.as_ref().unwrap_or(&"Uncategorized".to_string())
category_or_default(t) ==
    IF IsSome(t.category) THEN Unwrap(t.category) ELSE sUncategorized

\* the (total, count) pair of a category after one more transaction
count_in(entry, t) == <<entry[1] + t.amount, entry[2] + 1>>

\* A faulty variant: transactions of every kind are grouped.
category_step_all_kinds(st, t) ==
    [st EXCEPT !.category_totals =
                   insert(@, category_or_default(t),
                          count_in(get_or(@, category_or_default(t), <<0, 0>>), t)),
               !.total_spending = @ + t.amount]

\* one pass of the first loop of analyze_categories
category_step(st, t) ==
    IF t.transaction_type = "Debit"
    THEN [st EXCEPT !.category_totals =
                        insert(@, category_or_default(t),
                               count_in(get_or(@, category_or_default(t), <<0, 0>>), t)),
                    !.total_spending = @ + t.amount]
    ELSE st

RECURSIVE category_loop(_, _)
category_loop(transactions, st) ==
    IF transactions = <<>> THEN st
    ELSE category_loop(Tail(transactions), category_step(st, Head(transactions)))

\* category_totals and total_spending after the first loop of
\* analyze_categories
category_totals(d) ==
    category_loop(d.transactions,
        [category_totals |-> HashMap_new, total_spending |-> 0])

\* let average_amount = if count > 0 { .. } else { Decimal::ZERO }
average_amount(total_amount, count) ==
    IF count > 0
    THEN Decimal_div(Decimal_from(total_amount), Decimal_from(count))
    ELSE Decimal_from(0)

\* A faulty variant: the share is computed whatever the grand total is.
percentage_of_total_unguarded(total_amount, total_spending) ==
    Decimal_mul(Decimal_div(Decimal_from(total_amount), Decimal_from(total_spending)),
                Decimal_from(100))

\* let percentage_of_total = if total_spending > Decimal::ZERO { .. } else { .. }
percentage_of_total(total_amount, total_spending) ==
    IF total_spending > 0
    THEN Decimal_mul(Decimal_div(Decimal_from(total_amount), Decimal_from(total_spending)),
                     Decimal_from(100))
    ELSE Decimal_from(0)

\* the CategoryAnalysis pushed for one entry of category_totals
CategoryAnalysis(category, entry, total_spending) ==
    [category |-> category,
     total_amount |-> entry[1],
     transaction_count |-> entry[2],
     average_amount |-> average_amount(entry[1], entry[2]),
     percentage_of_total |-> percentage_of_total(entry[1], total_spending)]

\* the second loop of analyze_categories; order is the order in which the
\* HashMap hands out its entries
category_results(order, st) ==
    [k \in 1..Len(order) |->
        CategoryAnalysis(order[k], st.category_totals[order[k]], st.total_spending)]

\* A faulty variant: the smaller total comes first.
total_ascending(a, b) == a.total_amount < b.total_amount

\* the comparison |a, b| b.total_amount.cmp(&a.total_amount) is Less: a
\* sorts before b
total_descending(a, b) == a.total_amount > b.total_amount

place(sorted, x, n) == SubSeq(sorted, 1, n) \o <<x>> \o SubSeq(sorted, n + 1, Len(sorted))

\* x goes behind every element of sorted that it does not sort before
put_sorted(sorted, x) ==
    place(sorted, x,
          Cardinality({i \in 1..Len(sorted) : ~total_descending(x, sorted[i])}))

\* results.sort_by(..): a stable sort, here by insertion from the left
RECURSIVE sort_by(_, _)
sort_by(results, sorted) ==
    IF results = <<>> THEN sorted
    ELSE sort_by(Tail(results), put_sorted(sorted, Head(results)))

\* AnalysisEngine::analyze_categories
analyze_categories(d, order) ==
    sort_by(category_results(order, category_totals(d)), <<>>)

\* the predecessor of the first day of dt's month
end_of_previous_month(dt) ==
    IF dt.month = 1
    THEN [dt EXCEPT !.year = @ - 1, !.month = 12, !.day = 31]
    ELSE [dt EXCEPT !.month = @ - 1, !.day = DaysInMonth(dt.year, dt.month - 1)]

\* dt - chrono::Duration::days(n)
RECURSIVE minus_days(_, _)
minus_days(dt, n) ==
    IF n < dt.day THEN [dt EXCEPT !.day = @ - n]
    ELSE minus_days(end_of_previous_month(dt), n - dt.day)

\* let target_date = now - chrono::Duration::days((i * 30) as i64)
target_date(now, i) == minus_days(now, i * 30)

\* the filter of month_total
in_month_total(t, year, month, category) ==
    /\ t.date.year = year
    /\ t.date.month = month
    /\ t.category = Some(category)
    /\ t.transaction_type = "Debit"

\* Iterator::sum over the amounts of transactions
RECURSIVE sum_amounts(_)
sum_amounts(transactions) ==
    IF transactions = <<>> THEN 0
    ELSE Head(transactions).amount + sum_amounts(Tail(transactions))

\* let month_total: Decimal = data.transactions.iter().filter(..).map(..).sum()
month_total(d, year, month, category) ==
    sum_amounts(SelectSeq(d.transactions,
                          LAMBDA t : in_month_total(t, year, month, category)))

\* format!("{}-{:02}", year, month)
month_label(year, month) == FormatNat(year) \o <<"-">> \o Pad(FormatNat(month), 2)

\* the pair pushed for one target date
monthly_amount(d, category, target) ==
    <<month_label(target.year, target.month),
      month_total(d, target.year, target.month, category)>>

\* the loop `for i in 0..months_back` and the reverse after it: position k
\* of the reversed vector holds what the pass i = months_back - k pushed
monthly_amounts_of(d, category, now, months_back) ==
    [k \in 1..months_back |->
        monthly_amount(d, category, target_date(now, months_back - k))]

\* Iterator::sum over the amounts of (month, amount) pairs
RECURSIVE sum_pairs(_)
sum_pairs(amounts) ==
    IF amounts = <<>> THEN 0 ELSE Head(amounts)[2] + sum_pairs(Tail(amounts))

\* AnalysisEngine::calculate_average
calculate_average(amounts) ==
    IF amounts = <<>> THEN Decimal_from(0)
    ELSE Decimal_div(Decimal_from(sum_pairs(amounts)), Decimal_from(Len(amounts)))

\* A faulty variant: any difference counts, there is no threshold.
threshold_zero(first_half_avg) == Decimal_from(0)

\* first_half_avg * Decimal::from_f32(0.1).unwrap_or(Decimal::ZERO)
threshold(first_half_avg) == Decimal_mul(first_half_avg, quotient(1, 10))

\* the if / else-if chain of calculate_trend_direction; "Panic" stands for
\* a division by zero that happened on the way
direction(difference, limit) ==
    IF Faulted(difference) \/ Faulted(limit) THEN "Panic"
    ELSE IF Decimal_gt(difference, limit) THEN "Increasing"
    ELSE IF Decimal_lt(difference, Decimal_neg(limit)) THEN "Decreasing"
    ELSE "Stable"

compare_halves(first_half_avg, second_half_avg) ==
    direction(Decimal_sub(second_half_avg, first_half_avg), threshold(first_half_avg))

\* AnalysisEngine::calculate_trend_direction
calculate_trend_direction(amounts) ==
    IF Len(amounts) < 2 THEN "Stable"
    ELSE compare_halves(
             calculate_average(SubSeq(amounts, 1, Len(amounts) \div 2)),
             calculate_average(SubSeq(amounts, (Len(amounts) \div 2) + 1, Len(amounts))))

\* let average_monthly = if !monthly_amounts.is_empty() { .. } else { .. }
average_monthly(amounts) ==
    IF amounts # <<>>
    THEN Decimal_div(Decimal_from(sum_pairs(amounts)), Decimal_from(Len(amounts)))
    ELSE Decimal_from(0)

\* the SpendingTrend inserted for one category
SpendingTrend(category, amounts) ==
    [category |-> category,
     monthly_amounts |-> amounts,
     trend_direction |-> calculate_trend_direction(amounts),
     average_monthly |-> average_monthly(amounts)]

\* the HashSet of the categories on any transaction
categories_of(d) ==
    {Unwrap(d.transactions[k].category) :
         k \in {m \in 1..Len(d.transactions) : IsSome(d.transactions[m].category)}}

\* AnalysisEngine::analyze_spending_trends; now is what Utc::now() returned
\* and order the order in which trends.into_values() hands out the trends
analyze_spending_trends(d, months_back, now, order) ==
    [k \in 1..Len(order) |->
        SpendingTrend(order[k], monthly_amounts_of(d, order[k], now, months_back))]

\* one pass of the first loop of detect_anomalies
stats_step(stats, t) ==
    IF t.transaction_type = "Debit"
    THEN insert(stats, category_or_default(t),
                count_in(get_or(stats, category_or_default(t), <<0, 0>>), t))
    ELSE stats

RECURSIVE stats_loop(_, _)
stats_loop(transactions, stats) ==
    IF transactions = <<>> THEN stats
    ELSE stats_loop(Tail(transactions), stats_step(stats, Head(transactions)))

\* category_stats after the first loop of detect_anomalies
category_stats(d) == stats_loop(d.transactions, HashMap_new)

\* let average = total / Decimal::from(*count)
category_average(entry) == Decimal_div(Decimal_from(entry[1]), Decimal_from(entry[2]))

\* A faulty variant: the mean is divided by three, not multiplied.
is_anomaly_above_a_third(t, stats) ==
    /\ t.transaction_type = "Debit"
    /\ category_or_default(t) \in DOMAIN stats
    /\ stats[category_or_default(t)][2] > 0
    /\ Decimal_gt(Decimal_from(t.amount),
                  Decimal_div(category_average(stats[category_or_default(t)]),
                              Decimal_from(3)))

\* A faulty variant: an amount equal to the threshold is pushed too.
is_anomaly_at_threshold(t, stats) ==
    /\ t.transaction_type = "Debit"
    /\ category_or_default(t) \in DOMAIN stats
    /\ stats[category_or_default(t)][2] > 0
    /\ ~Decimal_lt(Decimal_from(t.amount),
                   Decimal_mul(category_average(stats[category_or_default(t)]),
                               Decimal_from(3)))

\* the body of the second loop of detect_anomalies: whether the transaction
\* is pushed
is_anomaly(t, stats) ==
    /\ t.transaction_type = "Debit"
    /\ category_or_default(t) \in DOMAIN stats
    /\ stats[category_or_default(t)][2] > 0
    /\ Decimal_gt(Decimal_from(t.amount),
                  Decimal_mul(category_average(stats[category_or_default(t)]),
                              Decimal_from(3)))

\* whether the second loop of detect_anomalies divides by zero
anomaly_fault(t, stats) ==
    /\ t.transaction_type = "Debit"
    /\ category_or_default(t) \in DOMAIN stats
    /\ stats[category_or_default(t)][2] > 0
    /\ Faulted(category_average(stats[category_or_default(t)]))

anomalies_in(d, stats) == SelectSeq(d.transactions, LAMBDA t : is_anomaly(t, stats))

\* AnalysisEngine::detect_anomalies
detect_anomalies(d) == anomalies_in(d, category_stats(d))

(***************************************************************************)
(* Inputs                                                                  *)
(***************************************************************************)

\* the longest run of free lines an input ends with
MaxBody == 3

\* The lines an input is drawn from.  A T line is an account type in an
\* account record and an amount in a transaction record; a D line is a
\* description in the one and a date in the other.
BodyLines ==
    { sAccount,
      sType \o sBank,
      <<"N", "A">>,
      <<"D", "1", "/", "2", "/", "2", "0", "2", "3">>,
      <<"D", "x">>,
      <<"T", "5">>,
      <<"T", "-", "5">>,
      <<"T", "-", "0">>,
      <<"T", "B", "a", "n", "k">>,
      <<"P", "B", "o", "b">>,
      <<"M", "h", "i">>,
      <<"^">>,
      <<>> }

\* What an input starts with: nothing, an account record and the header of
\* its type section, or both followed by one full transaction record.
Openings ==
    { <<>>,
      <<sAccount, <<"N", "A">>, <<"T", "B", "a", "n", "k">>, <<"^">>, sType \o sBank>>,
      <<sAccount, <<"N", "S", "a", "v">>, <<"T", "s", "a", "v", "i", "n", "g", "s">>, <<"D", "i", "n", "s", "t">>, <<"^">>,
        sType \o sBank,
        <<"D", "1", "2", "-", "3", "1", "-", "9", "9">>, <<"T", "-", "1", "2">>, <<"P", "B", "o", "b">>, <<"L", "F", "o", "o", "d">>, <<"M", "h", "i">>, <<"C", "*">>, <<"^">> >> }

RECURSIVE SeqsUpTo(_, _)
SeqsUpTo(S, n) ==
    IF n = 0 THEN {<<>>}
    ELSE LET shorter == SeqsUpTo(S, n - 1)
         IN  shorter \cup {Append(q, x) : q \in {r \in shorter : Len(r) = n - 1}, x \in S}

\* the type texts of an account record: every recognized name in some
\* spelling, and texts that are no recognized name
TypeTexts ==
    { <<"B", "a", "n", "k">>, <<"c", "h", "e", "c", "k", "i", "n", "g">>, <<"S", "a", "v", "i", "n", "g", "s">>, <<"C", "C", "a", "r", "d">>, <<"c", "r", "e", "d", "i", "t">>, <<"I", "n", "v", "s", "t">>,
      <<"I", "N", "V", "E", "S", "T", "M", "E", "N", "T">>, <<"C", "a", "s", "h">>, <<"L", "i", "a", "b", "i", "l", "i", "t", "y">>, <<"a", "s", "s", "e", "t">>, <<"F", "o", "o">>, <<>> }

\* One account record: name, type and description lines each present or not.
AccountRecords ==
    { <<sAccount>> \o n \o t \o d \o << <<"^">> >> :
          n \in { <<>>, <<<<"N", "A">>>> },
          t \in { <<>> } \cup { <<(<<"T">> \o x)>> : x \in TypeTexts },
          d \in { <<>>, <<<<"D", "i", "n", "s", "t">>>> } }

(***************************************************************************)
(* State                                                                   *)
(***************************************************************************)

VARIABLES
    content,        \* the lines of the text handed to the decoder
    phase,          \* how far the import / export / re-import run has come
    original,       \* what parse_qif_content returned for content
    exported_qif,   \* the lines export_to_string returned for original.data
    reimported,     \* what parse_qif_content returned for exported_qif
    data,           \* a FinancialData a caller builds through its methods
    txn,            \* a Transaction a caller holds, None before it is made
    written,        \* the lines export_transaction wrote for txn
    next_uuid,      \* the next value Uuid::new_v4() hands to the caller
    call,           \* the AnalysisEngine function that was called, and its arguments
    result,         \* what that call returned, or that it panicked
    series,         \* a slice of (month, amount) pairs a caller holds
    scan            \* the decoder run loop iteration by loop iteration

vars == <<content, phase, original, exported_qif, reimported,
          data, txn, written, next_uuid, call, result, series, scan>>

analysis_vars == <<call, result, series>>

codec_vars == <<content, phase, original, exported_qif, reimported>>

caller_vars == <<data, txn, written, next_uuid>>

NoResult == parse_qif_content(<<>>, 1)

CodecIdle ==
    /\ content = <<>>
    /\ phase = "start"
    /\ original = NoResult
    /\ exported_qif = <<>>
    /\ reimported = NoResult

CallerIdle ==
    /\ data = FinancialData_new
    /\ txn = None
    /\ written = <<>>
    /\ next_uuid = 1

\* no AnalysisEngine function was called yet
NoCall ==
    [op |-> "none", year |-> 0, month |-> 0, months_back |-> 0,
     now |-> [year |-> 0, month |-> 0, day |-> 0, secs |-> 0],
     account_id |-> 0]

NoAnswer == [panicked |-> FALSE, value |-> <<>>]

AnalysisIdle ==
    /\ call = NoCall
    /\ result = NoAnswer
    /\ series = <<>>

\* the local variables of parse_account_section before its loop
account_locals ==
    [index |-> 0, name |-> sUnknownAccount,
     account_type |-> AccountType("Other", sUnknown), description |-> None]

\* the local variables of parse_single_transaction before its loop
record_locals ==
    [ok |-> TRUE, index |-> 0, date |-> None, amount |-> 0,
     description |-> sUnknown, payee |-> None, category |-> None,
     memo |-> None, cleared |-> FALSE]

\* A decoder run that has not begun.  pc is the loop whose head the run
\* stands at, i the line cursor (the first line is line 1).  The four head
\* fields hold the cursor at which the latest iteration of each loop began,
\* 0 before the first one.
NoScan ==
    [pc |-> "idle", i |-> 1,
     data |-> FinancialData_new, current_account |-> None, next_id |-> 1,
     account |-> account_locals, account_id |-> 0, transactions |-> <<>>,
     record |-> record_locals,
     scanner_head |-> 0, account_head |-> 0, section_head |-> 0,
     record_head |-> 0]

ScanIdle == scan = NoScan

Init ==
    /\ CallerIdle
    /\ AnalysisIdle
    /\ ScanIdle
    /\ content \in {o \o b : o \in Openings, b \in SeqsUpTo(BodyLines, MaxBody)}
                       \cup AccountRecords
    /\ phase = "start"
    /\ original = NoResult
    /\ exported_qif = <<>>
    /\ reimported = NoResult

\* let original_data = QifImporter::parse_qif_content(content)
Import ==
    /\ phase = "start"
    /\ original' = parse_qif_content(content, 1)
    /\ phase' = IF original'.ok THEN "imported" ELSE "failed"
    /\ UNCHANGED <<scan, analysis_vars, content, exported_qif, reimported, caller_vars>>

\* let exported_qif = QifExporter::export_to_string(&original_data)
Export ==
    /\ phase = "imported"
    /\ exported_qif' = export_to_string(original.data)
    /\ phase' = "exported"
    /\ UNCHANGED <<scan, analysis_vars, content, original, reimported, caller_vars>>

\* let reimported_data = QifImporter::parse_qif_content(&exported_qif)
Reimport ==
    /\ phase = "exported"
    /\ reimported' = parse_qif_content(exported_qif, original.next_id)
    /\ phase' = "reimported"
    /\ UNCHANGED <<scan, analysis_vars, content, original, exported_qif, caller_vars>>

Next == Import \/ Export \/ Reimport

Spec == Init /\ [][Next]_vars

(***************************************************************************)
(* A caller building a document through FinancialData's methods            *)
(***************************************************************************)

\* the most accounts and the most transactions a caller adds
MaxAccounts == 2

MaxTransactions == 3

Labels == { <<"F", "o", "o", "d">>, <<"R", "e", "n", "t">> }

OptionalLabels == {None} \cup {Some(l) : l \in Labels}

InitData ==
    /\ CodecIdle
    /\ AnalysisIdle
    /\ ScanIdle
    /\ CallerIdle

\* data.add_account(Account::new(..))
AddNewAccount ==
    /\ Len(data.accounts) < MaxAccounts
    /\ data' = add_account(data,
                   Account_new(next_uuid, <<"N", "A">>,
                               AccountType("Checking", <<>>), 0, sUSD))
    /\ next_uuid' = next_uuid + 1
    /\ UNCHANGED <<scan, analysis_vars, codec_vars, txn, written>>

\* data.add_account(account.clone()) for an account that was added before
AddAccountAgain ==
    /\ Len(data.accounts) < MaxAccounts
    /\ \E k \in 1..Len(data.accounts) :
           data' = add_account(data, data.accounts[k])
    /\ UNCHANGED <<scan, analysis_vars, codec_vars, txn, written, next_uuid>>

\* data.add_transaction(t) for a new transaction t whose category and payee
\* the caller has set
AddTransaction ==
    /\ Len(data.transactions) < MaxTransactions
    /\ \E category \in OptionalLabels, payee \in OptionalLabels :
           data' = add_transaction(data,
                       [Transaction_new(next_uuid, 0, Now, 1, sUnknown, "Debit")
                            EXCEPT !.category = category, !.payee = payee])
    /\ next_uuid' = next_uuid + 1
    /\ UNCHANGED <<scan, analysis_vars, codec_vars, txn, written>>

NextData == AddNewAccount \/ AddAccountAgain \/ AddTransaction

SpecData == InitData /\ [][NextData]_vars

(***************************************************************************)
(* A caller holding one transaction                                        *)
(***************************************************************************)

\* the largest amount a caller gives a transaction
MaxAmount == 2

TransactionTypes ==
    {"Debit", "Credit", "Transfer", "Fee", "Interest", "Dividend", "Other"}

\* the records a held transaction is decoded from
DecodedRecords ==
    { << <<"T", "5">>, <<"^">> >>,
      << <<"T", "-", "5">>, <<"C", "*">>, <<"^">> >>,
      << <<"T", "-", "0">>, <<"C", "x">> >>,
      << <<"P", "B", "o", "b">>, <<"C", "?">>, <<"^">> >> }

\* let mut transaction = Transaction::new(..)
NewTransaction ==
    /\ txn = None
    /\ \E kind \in TransactionTypes, amount \in 0..MaxAmount :
           txn' = Some(Transaction_new(next_uuid, 0, Now, amount, sUnknown, kind))
    /\ next_uuid' = next_uuid + 1
    /\ UNCHANGED <<scan, analysis_vars, codec_vars, data, written>>

\* a transaction the decoder built from one record
DecodeTransaction ==
    /\ txn = None
    /\ \E record \in DecodedRecords :
           txn' = Some(parse_single_transaction(record, 1, 0, next_uuid).transaction)
    /\ next_uuid' = next_uuid + 1
    /\ UNCHANGED <<scan, analysis_vars, codec_vars, data, written>>

\* transaction.mark_cleared()
MarkCleared ==
    /\ txn # None
    /\ txn' = Some(mark_cleared(Unwrap(txn)))
    /\ UNCHANGED <<scan, analysis_vars, codec_vars, data, written, next_uuid>>

\* transaction.mark_reconciled()
MarkReconciled ==
    /\ txn # None
    /\ txn' = Some(mark_reconciled(Unwrap(txn)))
    /\ UNCHANGED <<scan, analysis_vars, codec_vars, data, written, next_uuid>>

\* QifExporter::export_transaction(&transaction)
ExportTransaction ==
    /\ txn # None
    /\ written' = export_transaction(Unwrap(txn))
    /\ UNCHANGED <<scan, analysis_vars, codec_vars, data, txn, next_uuid>>

NextTransaction ==
    \/ NewTransaction
    \/ DecodeTransaction
    \/ MarkCleared
    \/ MarkReconciled
    \/ ExportTransaction

SpecTransaction == InitData /\ [][NextTransaction]_vars

(***************************************************************************)
(* The record parser on one transaction record                             *)
(***************************************************************************)

\* the most lines of a record handed to the record parser
MaxRecord == 3

\* the lines a record is drawn from: payees, memos (one of them empty), an
\* amount, a date that does not parse, and the terminator
RecordLines ==
    { <<"P", "B", "o", "b">>,
      <<"P", "A", "l">>,
      <<"M", "h", "i">>,
      <<"M", "o", "k">>,
      <<"M">>,
      <<"T", "-", "5">>,
      <<"D", "x">>,
      <<"^">> }

InitRecord ==
    /\ CallerIdle
    /\ AnalysisIdle
    /\ ScanIdle
    /\ content \in SeqsUpTo(RecordLines, MaxRecord)
    /\ phase = "start"
    /\ original = NoResult
    /\ exported_qif = <<>>
    /\ reimported = NoResult

\* Self::parse_single_transaction(lines, index, account_id) on the lines of
\* content; an Err leaves no transaction
DecodeRecord ==
    /\ phase = "start"
    /\ phase' = IF parse_single_transaction(content, 1, 0, next_uuid).ok
                THEN "imported" ELSE "failed"
    /\ txn' = IF parse_single_transaction(content, 1, 0, next_uuid).ok
              THEN Some(parse_single_transaction(content, 1, 0, next_uuid).transaction)
              ELSE None
    /\ next_uuid' = next_uuid + 1
    /\ UNCHANGED <<scan, analysis_vars, content, original, exported_qif, reimported,
                   data, written>>

NextRecord == DecodeRecord

SpecRecord == InitRecord /\ [][NextRecord]_vars

(***************************************************************************)
(* The analysis engine on a document                                       *)
(***************************************************************************)

\* the most transactions of a document handed to the analysis engine
MaxLedger == 3

\* the largest lookback handed to analyze_spending_trends
MaxMonthsBack == 3

sFood == <<"F", "o", "o", "d">>

sRent == <<"R", "e", "n", "t">>

\* chrono::Utc.with_ymd_and_hms(y, m, d, 0, 0, 0).unwrap()
with_ymd(y, m, d) == [year |-> y, month |-> m, day |-> d, secs |-> 0]

Row(date, amount, tx_type, category) ==
    [date |-> date, amount |-> amount, tx_type |-> tx_type, category |-> category]

\* The (date, amount, kind, category) tuples a document is built from:
\* debits, a credit and a transfer, some sharing a month or a category, one
\* in the same month of another year, one of amount zero without category.
SampleRows ==
    { Row(with_ymd(2024, 1, 15), 500, "Debit", Some(sFood)),
      Row(with_ymd(2024, 1, 25), 3000, "Credit", Some(sFood)),
      Row(with_ymd(2024, 2, 10), 200, "Debit", Some(sRent)),
      Row(with_ymd(2024, 3, 5), 0, "Debit", None),
      Row(with_ymd(2023, 1, 20), 200, "Debit", Some(sFood)),
      Row(with_ymd(2024, 1, 5), 100, "Transfer", Some(sRent)),
      Row(with_ymd(2024, 3, 20), 450, "Debit", None) }

sGroceries == <<"G", "r", "o", "c", "e", "r", "i", "e", "s">>

sGas == <<"G", "a", "s">>

sSalary == <<"S", "a", "l", "a", "r", "y">>

\* the tuples of create_test_data as the tests have them
TestRows ==
    << Row(with_ymd(2024, 1, 15), 500, "Debit", Some(sGroceries)),
       Row(with_ymd(2024, 1, 20), 200, "Debit", Some(sGas)),
       Row(with_ymd(2024, 1, 25), 3000, "Credit", Some(sSalary)),
       Row(with_ymd(2024, 2, 10), 600, "Debit", Some(sGroceries)),
       Row(with_ymd(2024, 2, 15), 250, "Debit", Some(sGas)) >>

\* the loop of create_test_data: a new transaction per tuple, its category
\* set, added to the document; id is where the Uuid counter stands
RECURSIVE add_rows(_, _, _, _)
add_rows(d, account_id, rows, id) ==
    IF rows = <<>> THEN d
    ELSE add_rows(
             add_transaction(d,
                 [Transaction_new(id, account_id, Head(rows).date, Head(rows).amount,
                                  <<"T", "e", "s", "t">>, Head(rows).tx_type)
                      EXCEPT !.category = Head(rows).category]),
             account_id, Tail(rows), id + 1)

\* create_test_data: one account and the transactions of the tuples
create_test_data(rows) ==
    add_rows(add_account(FinancialData_new,
                 Account_new(1, <<"T", "e", "s", "t">>,
                             AccountType("Checking", <<>>), 1000, sUSD)),
             1, rows, 2)

\* the (year, month) pairs a report is asked for
ReportPeriods == { <<2024, 1>>, <<2024, 2>>, <<2024, 3>>, <<2023, 1>>, <<2024, 12>> }

\* what Utc::now() may return to analyze_spending_trends
CurrentTimes ==
    { Now,
      [year |-> 2024, month |-> 3, day |-> 31, secs |-> 34200],
      [year |-> 2024, month |-> 2, day |-> 15, secs |-> 34200] }

InitAnalysis ==
    /\ CodecIdle
    /\ AnalysisIdle
    /\ ScanIdle
    /\ txn = None
    /\ written = <<>>
    /\ data \in {create_test_data(rows) :
                     rows \in SeqsUpTo(SampleRows, MaxLedger) \cup {TestRows}}
    /\ next_uuid = Len(data.transactions) + 2

Answer(value) == [panicked |-> FALSE, value |-> value]

\* what a call leaves behind: its value, or that it panicked
AnswerUnless(fault, value) ==
    [panicked |-> fault, value |-> IF fault THEN <<>> ELSE value]

\* AnalysisEngine::generate_monthly_report(&data, year, month)
GenerateMonthlyReport ==
    /\ call.op = "none"
    /\ \E period \in ReportPeriods :
           /\ call' = [NoCall EXCEPT !.op = "generate_monthly_report",
                                     !.year = period[1], !.month = period[2]]
           /\ result' = Answer(generate_monthly_report(data, period[1], period[2]))
    /\ UNCHANGED <<scan, codec_vars, caller_vars, series>>

\* a division by zero on the way to one of the results
categories_fault(results) ==
    \E k \in 1..Len(results) :
        Faulted(results[k].average_amount) \/ Faulted(results[k].percentage_of_total)

\* AnalysisEngine::analyze_categories(&data)
AnalyzeCategories ==
    /\ call.op = "none"
    /\ call' = [NoCall EXCEPT !.op = "analyze_categories"]
    /\ \E order \in Orderings(DOMAIN category_totals(data).category_totals) :
           result' = AnswerUnless(categories_fault(analyze_categories(data, order)),
                                  analyze_categories(data, order))
    /\ UNCHANGED <<scan, codec_vars, caller_vars, series>>

\* a division by zero on the way to one of the trends
trends_fault(trends) ==
    \E k \in 1..Len(trends) :
        Faulted(trends[k].average_monthly) \/ trends[k].trend_direction = "Panic"

\* AnalysisEngine::analyze_spending_trends(&data, months_back)
AnalyzeSpendingTrends ==
    /\ call.op = "none"
    /\ \E months_back \in 0..MaxMonthsBack, now \in CurrentTimes,
          order \in Orderings(categories_of(data)) :
           /\ call' = [NoCall EXCEPT !.op = "analyze_spending_trends",
                                     !.months_back = months_back, !.now = now]
           /\ result' = AnswerUnless(
                            trends_fault(analyze_spending_trends(data, months_back, now, order)),
                            analyze_spending_trends(data, months_back, now, order))
    /\ UNCHANGED <<scan, codec_vars, caller_vars, series>>

\* AnalysisEngine::detect_anomalies(&data)
DetectAnomalies ==
    /\ call.op = "none"
    /\ call' = [NoCall EXCEPT !.op = "detect_anomalies"]
    /\ result' = AnswerUnless(
                     \E k \in 1..Len(data.transactions) :
                         anomaly_fault(data.transactions[k], category_stats(data)),
                     detect_anomalies(data))
    /\ UNCHANGED <<scan, codec_vars, caller_vars, series>>

NextAnalysis ==
    \/ GenerateMonthlyReport
    \/ AnalyzeCategories
    \/ AnalyzeSpendingTrends
    \/ DetectAnomalies

SpecAnalysis == InitAnalysis /\ [][NextAnalysis]_vars

(***************************************************************************)
(* calculate_trend_direction on a slice of monthly amounts                 *)
(***************************************************************************)

\* the most (month, amount) pairs of a drawn slice
MaxSeries == 3

\* the amounts a slice is drawn from: zero, and amounts at, just inside and
\* just outside a tenth around 100
TrendAmounts == {0, 90, 100, 110, 111}

\* the vectors of test_trend_direction_calculation
increasing == <<100, 150, 200, 250>>

decreasing == <<250, 200, 150, 100>>

stable == <<200, 190, 210, 200>>

\* (month, amount) pairs for the months of 2024, in order
as_series(amounts) == [k \in 1..Len(amounts) |-> <<month_label(2024, k), amounts[k]>>]

InitTrend ==
    /\ CodecIdle
    /\ CallerIdle
    /\ ScanIdle
    /\ call = NoCall
    /\ result = NoAnswer
    /\ series \in {as_series(q) : q \in SeqsUpTo(TrendAmounts, MaxSeries)
                                        \cup {increasing, decreasing, stable}}

\* AnalysisEngine::calculate_trend_direction(&series)
CalculateTrendDirection ==
    /\ call.op = "none"
    /\ call' = [NoCall EXCEPT !.op = "calculate_trend_direction"]
    /\ result' = AnswerUnless(calculate_trend_direction(series) = "Panic",
                              calculate_trend_direction(series))
    /\ UNCHANGED <<scan, codec_vars, caller_vars, series>>

NextTrend == CalculateTrendDirection

SpecTrend == InitTrend /\ [][NextTrend]_vars

(***************************************************************************)
(* detect_anomalies on documents with larger groups                        *)
(***************************************************************************)

\* the most transactions of a document handed to detect_anomalies
MaxAnomalyLedger == 4

\* The tuples these documents are built from: debits of one category at,
\* below and above three times a group mean, debits without a category, and
\* a credit.
AnomalyRows ==
    { Row(with_ymd(2024, 1, 15), 100, "Debit", Some(sFood)),
      Row(with_ymd(2024, 1, 16), 900, "Debit", Some(sFood)),
      Row(with_ymd(2024, 1, 17), 1000, "Debit", Some(sFood)),
      Row(with_ymd(2024, 1, 18), 0, "Debit", None),
      Row(with_ymd(2024, 1, 19), 50, "Debit", None),
      Row(with_ymd(2024, 1, 20), 5000, "Credit", Some(sFood)) }

sHugeGroceryBill ==
    <<"H", "u", "g", "e", " ", "g", "r", "o", "c", "e", "r", "y", " ",
      "b", "i", "l", "l">>

\* the document of test_anomaly_detection: the test data and one large
\* debit in "Groceries", dated now
test_anomaly_data ==
    add_transaction(create_test_data(TestRows),
        [Transaction_new(7, 1, Now, 5000,
                         sHugeGroceryBill, "Debit")
             EXCEPT !.category = Some(sGroceries)])

InitAnomalies ==
    /\ CodecIdle
    /\ AnalysisIdle
    /\ ScanIdle
    /\ txn = None
    /\ written = <<>>
    /\ data \in {create_test_data(rows) :
                     rows \in SeqsUpTo(AnomalyRows, MaxAnomalyLedger)}
                    \cup {test_anomaly_data}
    /\ next_uuid = Len(data.transactions) + 2

NextAnomalies == DetectAnomalies

SpecAnomalies == InitAnomalies /\ [][NextAnomalies]_vars

(***************************************************************************)
(* calculate_account_balance                                               *)
(***************************************************************************)

\* the most transactions of a document whose balances are calculated
MaxBalanceLedger == 3

sInitialDeposit ==
    <<"I", "n", "i", "t", "i", "a", "l", " ", "d", "e", "p", "o", "s", "i", "t">>

sPurchase == <<"P", "u", "r", "c", "h", "a", "s", "e">>

\* (owner, amount, description, kind) of the transactions of these
\* documents; the first two are those of test_account_balance_calculation
BalanceRows ==
    { <<1, 1000, sInitialDeposit, "Credit">>,
      <<1, 250, sPurchase, "Debit">>,
      <<1, 40, sUnknown, "Transfer">>,
      <<1, 7, sUnknown, "Fee">>,
      <<1, 0, sUnknown, "Debit">>,
      <<2, 1000, sInitialDeposit, "Credit">>,
      <<2, 250, sPurchase, "Debit">>,
      <<2, 3, sUnknown, "Interest">> }

\* the balances stored on the first account
StoredBalances == {0, 500}

\* the document after add_transaction of each row in turn, ids from id on
RECURSIVE add_balance_rows(_, _, _)
add_balance_rows(d, rows, id) ==
    IF rows = <<>> THEN d
    ELSE add_balance_rows(
             add_transaction(d, Transaction_new(id, Head(rows)[1], Now,
                                                Head(rows)[2], Head(rows)[3],
                                                Head(rows)[4])),
             Tail(rows), id + 1)

\* a document of two accounts, the first with the stored balance given
two_accounts(balance) ==
    add_account(
        add_account(FinancialData_new,
                    Account_new(1, <<"N", "A">>, AccountType("Checking", <<>>),
                                balance, sUSD)),
        Account_new(2, <<"N", "B">>, AccountType("Savings", <<>>), 0, sUSD))

InitBalance ==
    /\ CodecIdle
    /\ AnalysisIdle
    /\ ScanIdle
    /\ txn = None
    /\ written = <<>>
    /\ \E rows \in SeqsUpTo(BalanceRows, MaxBalanceLedger),
          accounts \in {FinancialData_new}
                           \cup {two_accounts(b) : b \in StoredBalances} :
           data = add_balance_rows(accounts, rows, 3)
    /\ next_uuid = Len(data.transactions) + 3

\* data.calculate_account_balance(&account_id), for the id of an account, of
\* an owner without an account, or of nothing
CalculateAccountBalance ==
    /\ call.op = "none"
    /\ \E id \in 1..3 :
           /\ call' = [NoCall EXCEPT !.op = "calculate_account_balance",
                                     !.account_id = id]
           /\ result' = Answer(calculate_account_balance(data, id))
    /\ UNCHANGED <<scan, codec_vars, caller_vars, series>>

NextBalance == CalculateAccountBalance

SpecBalance == InitBalance /\ [][NextBalance]_vars

(***************************************************************************)
(* export_to_string on documents of callers and of the decoder             *)
(***************************************************************************)

\* the most transactions of a document a caller exports, and the most free
\* lines of a content that is decoded and exported
MaxExportLedger == 3

MaxExportBody == 2

sBob == <<"B", "o", "b">>

sHi == <<"h", "i">>

\* (owner, amount, kind, payee, category, memo, cleared) of the transactions
\* a caller adds; owner 3 is the id of no account
ExportRows ==
    { <<1, 5, "Debit", None, None, None, FALSE>>,
      <<1, 5, "Credit", Some(sBob), Some(sFood), Some(sHi), TRUE>>,
      <<1, 9, "Transfer", None, None, Some(sHi), TRUE>>,
      <<2, 0, "Debit", None, Some(sFood), Some(sHi), FALSE>>,
      <<2, 7, "Credit", Some(sBob), None, None, TRUE>>,
      <<3, 1, "Credit", None, Some(sRent), None, FALSE>> }

export_row(row, id) ==
    [Transaction_new(id, row[1], Now, row[2], sUnknown, row[3])
         EXCEPT !.payee = row[4], !.category = row[5], !.memo = row[6],
                !.cleared = row[7]]

RECURSIVE add_export_rows(_, _, _)
add_export_rows(d, rows, id) ==
    IF rows = <<>> THEN d
    ELSE add_export_rows(add_transaction(d, export_row(Head(rows), id)),
                         Tail(rows), id + 1)

first_account ==
    Account_new(1, <<"N", "A">>, AccountType("Checking", <<>>), 0, sUSD)

second_account ==
    [Account_new(2, <<"N", "B">>, AccountType("CreditCard", <<>>), 0, sUSD)
         EXCEPT !.institution = Some(<<"i", "n", "s", "t">>)]

\* the accounts of a caller's document: one, two, or the first one twice
ExportAccounts ==
    { add_account(FinancialData_new, first_account),
      add_account(add_account(FinancialData_new, first_account), second_account),
      add_account(add_account(FinancialData_new, second_account), first_account),
      add_account(add_account(FinancialData_new, first_account), first_account) }

\* a content of two accounts, each with a type section: one record in the
\* first, two in the second
two_sections ==
    <<sAccount, <<"N", "A">>, <<"T", "B", "a", "n", "k">>, <<"^">>,
      sType \o sBank,
      <<"D", "1", "/", "2", "/", "2", "0", "2", "3">>, <<"T", "5">>, <<"^">>,
      sAccount, <<"N", "B">>, <<"T", "C", "C", "a", "r", "d">>, <<"^">>,
      sType \o <<"C", "C", "a", "r", "d">>,
      <<"D", "1", "/", "2", "/", "2", "0", "2", "3">>, <<"T", "-", "5">>,
      <<"P", "B", "o", "b">>, <<"^">>,
      <<"D", "1", "/", "2", "/", "2", "0", "2", "3">>, <<"T", "5">>,
      <<"M", "h", "i">>, <<"^">> >>

InitExport ==
    /\ AnalysisIdle
    /\ ScanIdle
    /\ phase = "start"
    /\ original = NoResult
    /\ exported_qif = <<>>
    /\ reimported = NoResult
    /\ txn = None
    /\ written = <<>>
    /\ \/ /\ content = <<>>
          /\ \E accounts \in ExportAccounts,
                rows \in SeqsUpTo(ExportRows, MaxExportLedger) :
                 data = add_export_rows(accounts, rows, 3)
          /\ next_uuid = Len(data.transactions) + 3
       \/ /\ content \in ({o \o b : o \in Openings,
                                    b \in SeqsUpTo(BodyLines, MaxExportBody)}
                              \cup {two_sections}) \ {<<>>}
          /\ data = FinancialData_new
          /\ next_uuid = 1

\* let data = QifImporter::parse_qif_content(content)?
DecodeDocument ==
    /\ phase = "start"
    /\ content # <<>>
    /\ original' = parse_qif_content(content, 1)
    /\ phase' = IF original'.ok THEN "imported" ELSE "failed"
    /\ data' = IF original'.ok THEN original'.data ELSE data
    /\ next_uuid' = original'.next_id
    /\ UNCHANGED <<scan, analysis_vars, content, exported_qif, reimported, txn, written>>

\* QifExporter::export_to_string(&data) on the document of the caller or on
\* the document that was decoded
ExportDocument ==
    /\ \/ phase = "start" /\ content = <<>>
       \/ phase = "imported"
    /\ exported_qif' = export_to_string(data)
    /\ phase' = "exported"
    /\ UNCHANGED <<scan, analysis_vars, content, original, reimported, caller_vars>>

NextExport == DecodeDocument \/ ExportDocument

SpecExport == InitExport /\ [][NextExport]_vars

(***************************************************************************)
(* The decoder, one loop iteration at a time                               *)
(***************************************************************************)

\* the most free lines of a content that is decoded step by step
MaxScanBody == 2

\* the tail of parse_account_section and the rest of the !Account branch:
\* the account is built, made the current one and added
finish_account(s) ==
    [after_account(s, build_account([s.account EXCEPT !.index = s.i], s.next_id))
         EXCEPT !.pc = "scanner"]

\* One iteration of the while loop of parse_qif_content, up to the call it
\* makes.  Past the last line the loop ends and Ok(data) is returned; a type
\* header without a current account returns the error.
scanner_iteration(lines, s) ==
    IF ~(s.i <= Len(lines)) THEN [s EXCEPT !.pc = "done"]
    ELSE IF starts_with(trim(lines[s.i]), sAccount)
    THEN [s EXCEPT !.pc = "account", !.scanner_head = s.i, !.i = @ + 1,
                   !.account = account_locals, !.account_head = 0]
    ELSE IF starts_with(trim(lines[s.i]), sType)
    THEN IF ~account_context(s.current_account).ok
         THEN [s EXCEPT !.pc = "failed", !.scanner_head = s.i]
         ELSE [s EXCEPT !.pc = "section", !.scanner_head = s.i, !.i = @ + 1,
                        !.account_id = account_context(s.current_account).id,
                        !.transactions = <<>>, !.section_head = 0]
    ELSE [s EXCEPT !.scanner_head = s.i, !.i = @ + 1]

\* One iteration of the while loop of parse_account_section: the loop ends
\* past the last line, on an empty line or a header (cursor left alone) and
\* on the terminator (cursor moved past it); a field line is read.
account_iteration(lines, s) ==
    IF ~(s.i <= Len(lines)) THEN finish_account(s)
    ELSE IF trim(lines[s.i]) = <<>> \/ starts_with(trim(lines[s.i]), <<"!">>)
    THEN finish_account(s)
    ELSE IF trim(lines[s.i]) = <<"^">>
    THEN finish_account([s EXCEPT !.account_head = s.i, !.i = @ + 1])
    ELSE [s EXCEPT !.account = account_field(@, trim(lines[s.i])),
                   !.account_head = s.i, !.i = @ + 1]

\* One iteration of the while loop of parse_transaction_section, up to the
\* call of parse_single_transaction.  When the loop ends the vector is
\* returned and its transactions are added to the document.
section_iteration(lines, s) ==
    IF ~(s.i <= Len(lines)) THEN
        [s EXCEPT !.pc = "scanner", !.data = add_transactions(@, s.transactions)]
    ELSE IF trim(lines[s.i]) = <<>> \/ starts_with(trim(lines[s.i]), <<"!">>)
    THEN [s EXCEPT !.pc = "scanner", !.data = add_transactions(@, s.transactions)]
    ELSE [s EXCEPT !.pc = "record", !.section_head = s.i,
                   !.record = record_locals, !.record_head = 0]

\* A faulty variant: the cursor stays on the line that failed.
next_after_failure_stuck(index) == index

\* else { *index += 1 } of parse_transaction_section
next_after_failure(index) == index + 1

\* parse_single_transaction returned Ok: transactions.push(transaction)
push_record(s) ==
    [s EXCEPT !.pc = "section",
              !.transactions =
                  Append(@, build_transaction([s.record EXCEPT !.index = s.i],
                                              s.account_id, s.next_id).transaction),
              !.next_id = @ + 1]

\* after the if / else-if chain of one line: the early return of a `?`
\* hands the cursor to the else branch of the section loop
after_field(s, st) ==
    IF ~st.ok THEN [s EXCEPT !.pc = "section", !.i = next_after_failure(s.i)]
    ELSE [s EXCEPT !.record = st, !.record_head = s.i, !.i = @ + 1]

\* One iteration of the while loop of parse_single_transaction.
record_iteration(lines, s) ==
    IF ~(s.i <= Len(lines)) THEN push_record(s)
    ELSE IF trim(lines[s.i]) = <<"^">>
    THEN push_record([s EXCEPT !.record_head = s.i, !.i = @ + 1])
    ELSE after_field(s, transaction_field(s.record, trim(lines[s.i])))

InitScan ==
    /\ AnalysisIdle
    /\ CallerIdle
    /\ phase = "start"
    /\ original = NoResult
    /\ exported_qif = <<>>
    /\ reimported = NoResult
    /\ content \in {o \o b : o \in Openings, b \in SeqsUpTo(BodyLines, MaxScanBody)}
                       \cup {two_sections}
    /\ scan = [NoScan EXCEPT !.pc = "scanner"]

ScannerIteration ==
    /\ scan.pc = "scanner"
    /\ scan' = scanner_iteration(content, scan)
    /\ UNCHANGED <<analysis_vars, codec_vars, caller_vars>>

AccountIteration ==
    /\ scan.pc = "account"
    /\ scan' = account_iteration(content, scan)
    /\ UNCHANGED <<analysis_vars, codec_vars, caller_vars>>

SectionIteration ==
    /\ scan.pc = "section"
    /\ scan' = section_iteration(content, scan)
    /\ UNCHANGED <<analysis_vars, codec_vars, caller_vars>>

RecordIteration ==
    /\ scan.pc = "record"
    /\ scan' = record_iteration(content, scan)
    /\ UNCHANGED <<analysis_vars, codec_vars, caller_vars>>

NextScan ==
    ScannerIteration \/ AccountIteration \/ SectionIteration \/ RecordIteration

SpecScan == InitScan /\ [][NextScan]_vars

\* The decoder is straight-line synchronous code: while a loop has not
\* ended, its next iteration is executed.  Each iteration is weakly fair.
\* For the record loop WF_vars(RecordIteration) is written out: an iteration
\* of it is enabled, and changes scan, exactly while scan.pc = "record".
SpecScanLive ==
    /\ SpecScan
    /\ WF_vars(ScannerIteration)
    /\ WF_vars(AccountIteration)
    /\ WF_vars(SectionIteration)
    /\ ([]<>(scan.pc # "record") \/ []<><<RecordIteration>>_vars)

(***************************************************************************)
(* Properties                                                              *)
(***************************************************************************)

HasDocument == phase \in {"imported", "exported", "reimported"}

\* what the round-trip law compares of two transactions
SameTransaction(a, b) ==
    /\ a.amount = b.amount
    /\ a.transaction_type = b.transaction_type
    /\ a.payee = b.payee
    /\ a.category = b.category
    /\ a.memo = b.memo
    /\ a.cleared = b.cleared
    /\ Day(a.date) = Day(b.date)

\* C1: decoding the encoder's output of a decoded document succeeds and
\* gives as many accounts, as many transactions and, position by position,
\* transactions with the same magnitude, kind, payee, category, memo,
\* cleared flag and calendar day.
RoundTripLaw ==
    phase = "reimported" =>
        /\ reimported.ok
        /\ Len(reimported.data.accounts) = Len(original.data.accounts)
        /\ Len(reimported.data.transactions) = Len(original.data.transactions)
        /\ \A k \in 1..Len(original.data.transactions) :
               SameTransaction(original.data.transactions[k],
                               reimported.data.transactions[k])

\* A round trip of two accounts, a cleared debit with a memo and a
\* transaction whose date was defaulted to the time of the import.
RoundTripWitness ==
    /\ phase = "reimported"
    /\ Len(original.data.accounts) >= 2
    /\ \E k \in 1..Len(original.data.transactions) :
           /\ original.data.transactions[k].transaction_type = "Debit"
           /\ original.data.transactions[k].cleared
           /\ IsSome(original.data.transactions[k].memo)
    /\ \E k \in 1..Len(original.data.transactions) :
           /\ original.data.transactions[k].date = Now
           /\ reimported.data.transactions[k].date # Now

\* C2: a record whose date or amount does not parse is skipped as a whole:
\* no transaction is read from lines that follow the failing line before
\* the record's terminator.
SkippedRecordIsDiscarded ==
    HasDocument =>
        \A a \in 1..Len(original.failures), b \in 1..Len(original.spans) :
            original.spans[b][1] > original.failures[a] =>
                \E j \in (original.failures[a] + 1)..(original.spans[b][1] - 1) :
                    trim(content[j]) = <<"^">>

IsTypeLine(l) == starts_with(trim(l), sType)

IsAccountLine(l) == starts_with(trim(l), sAccount)

\* a type-section line that no account-section line precedes
OrphanTypeLine(lines) ==
    \E k \in 1..Len(lines) :
        /\ IsTypeLine(lines[k])
        /\ \A j \in 1..(k - 1) : ~IsAccountLine(lines[j])

\* C3: when a type-section line comes before any account-section line, the
\* decode returns an error and no document.
TypeSectionWithoutAccountFails ==
    (phase # "start" /\ OrphanTypeLine(content)) => phase = "failed"

\* A failed decode whose type-section line is not the first line.
TypeSectionWithoutAccountWitness ==
    /\ phase = "failed"
    /\ Len(content) >= 2
    /\ ~IsTypeLine(content[1])

\* C4: the decode returns an error only when a type-section line comes
\* before any account-section line; record failures, unknown lines and
\* missing terminators are no error.
ErrorOnlyWithoutAccount ==
    /\ phase = "failed" => OrphanTypeLine(content)
    /\ (phase = "reimported" /\ ~reimported.ok) => OrphanTypeLine(exported_qif)

\* A decode that returned a document although a record failed to parse and
\* the last record has no terminator.
ErrorOnlyWithoutAccountWitness ==
    /\ phase = "imported"
    /\ original.failures # <<>>
    /\ trim(content[Len(content)]) # <<"^">>
    /\ original.spans # <<>>
    /\ original.spans[Len(original.spans)][2] = Len(content) + 1

\* the T lines among the lines a transaction was read from
AmountLines(lines, span) ==
    {j \in span[1]..(span[2] - 1) : starts_with(trim(lines[j]), <<"T">>)}

\* the amount the last T line of a record states, zero without a T line
StatedAmount(lines, span) ==
    IF AmountLines(lines, span) = {} THEN 0
    ELSE ParseDecimal(trim(strip_prefix(
             trim(lines[CHOOSE j \in AmountLines(lines, span) :
                            \A m \in AmountLines(lines, span) : m <= j]),
             <<"T">>))).val

KindAndMagnitude(t, v) ==
    /\ t.transaction_type = IF v >= 0 THEN "Credit" ELSE "Debit"
    /\ t.amount = IF v < 0 THEN 0 - v ELSE v
    /\ t.amount >= 0

\* C5: a decoded transaction is a credit when the amount its record states
\* is non-negative (zero and no amount line included) and a debit when it is
\* negative, and its magnitude is the absolute value of that amount.
KindFollowsSign ==
    HasDocument =>
        \A k \in 1..Len(original.data.transactions) :
            KindAndMagnitude(original.data.transactions[k],
                             StatedAmount(content, original.spans[k]))

\* A document with a debit, a credit of zero read from "T-0" and a credit
\* whose record has no amount line.
KindFollowsSignWitness ==
    /\ HasDocument
    /\ \E k \in 1..Len(original.data.transactions) :
           /\ original.data.transactions[k].transaction_type = "Debit"
           /\ original.data.transactions[k].amount > 0
    /\ \E k \in 1..Len(original.data.transactions) :
           /\ original.data.transactions[k].transaction_type = "Credit"
           /\ AmountLines(content, original.spans[k]) = {}
    /\ \E k \in 1..Len(original.data.transactions) :
           /\ original.data.transactions[k].transaction_type = "Credit"
           /\ AmountLines(content, original.spans[k]) # {}
           /\ original.data.transactions[k].amount = 0

\* the amount on the T line of a written transaction record, as the
\* decoder's amount parser reads it
WrittenAmount == ParseDecimal(strip_prefix(written[2], <<"T">>)).val

ReconciledImpliesCleared ==
    /\ [](txn # None => (Unwrap(txn).reconciled => Unwrap(txn).cleared))
    /\ [][MarkCleared => Unwrap(txn').reconciled = Unwrap(txn).reconciled]_vars

\* A transaction that was reconciled.
ReconciledWitness ==
    /\ txn # None
    /\ Unwrap(txn).reconciled
    /\ Unwrap(txn).cleared

\* the labels of one kind ("category" or "payee") on the transactions added
LabelsOn(field) ==
    {Unwrap(data.transactions[k][field]) :
         k \in {m \in 1..Len(data.transactions) : IsSome(data.transactions[m][field])}}

\* the first transaction that carries the label
FirstWith(field, label) ==
    CHOOSE k \in 1..Len(data.transactions) :
        /\ data.transactions[k][field] = Some(label)
        /\ \A m \in 1..(k - 1) : data.transactions[m][field] # Some(label)

\* list holds each label of the transactions once, in order of first
\* appearance, and nothing else
IsLabelIndex(list, field) ==
    /\ \A i, j \in 1..Len(list) : i # j => list[i] # list[j]
    /\ {list[i] : i \in 1..Len(list)} = LabelsOn(field)
    /\ \A i, j \in 1..Len(list) :
           i < j => FirstWith(field, list[i]) < FirstWith(field, list[j])

\* C8: after any add_transaction calls the categories list holds exactly the
\* category labels of the transactions added, each once, in order of first
\* appearance, and the payees list does so for the payee labels.
LabelListsFollowTransactions ==
    /\ IsLabelIndex(data.categories, "category")
    /\ IsLabelIndex(data.payees, "payee")

\* Three transactions were added, two of them with the same category and
\* one without a payee.
LabelListsWitness ==
    /\ Len(data.transactions) = 3
    /\ Len(data.categories) = 2
    /\ data.transactions[1].category = data.transactions[3].category
    /\ data.transactions[2].payee = None
    /\ Len(data.payees) = 2

\* C9: no two accounts of a document have the same id, whatever add_account
\* calls were made.
AccountIdsUnique ==
    \A i, j \in 1..Len(data.accounts) :
        i # j => data.accounts[i].id # data.accounts[j].id

\* what C10 compares of an account and the account decoded from its export
SameAccount(a, b) ==
    /\ a.name = b.name
    /\ a.institution = b.institution
    /\ \/ a.account_type = b.account_type
       \/ /\ a.account_type.tag = "Other"
          /\ b.account_type = parse_account_type(sBank)

\* C10: decoding the encoder's output gives every decoded account back with
\* its name, institution and kind, except that an other(tag) kind comes
\* back as the kind of the default tag.
AccountRoundTrip ==
    phase = "reimported" =>
        /\ Len(reimported.data.accounts) = Len(original.data.accounts)
        /\ \A k \in 1..Len(original.data.accounts) :
               SameAccount(original.data.accounts[k], reimported.data.accounts[k])

\* the type names parse_account_type recognizes, in lower case
RecognizedTypeNames ==
    { <<"b", "a", "n", "k">>, <<"c", "h", "e", "c", "k", "i", "n", "g">>,
      <<"s", "a", "v", "i", "n", "g", "s">>, <<"c", "c", "a", "r", "d">>,
      <<"c", "r", "e", "d", "i", "t">>, <<"i", "n", "v", "s", "t">>,
      <<"i", "n", "v", "e", "s", "t", "m", "e", "n", "t">>, <<"c", "a", "s", "h">>,
      <<"l", "i", "a", "b", "i", "l", "i", "t", "y">>, <<"a", "s", "s", "e", "t">> }

\* the line after the fields of the account record that starts at line 1
FirstRecordEnd(lines) ==
    CHOOSE k \in 2..(Len(lines) + 1) :
        /\ \A j \in 2..(k - 1) :
               /\ trim(lines[j]) # <<"^">>
               /\ trim(lines[j]) # <<>>
               /\ ~starts_with(trim(lines[j]), <<"!">>)
        /\ \/ k = Len(lines) + 1
           \/ trim(lines[k]) = <<"^">>
           \/ trim(lines[k]) = <<>>
           \/ starts_with(trim(lines[k]), <<"!">>)

\* the type field lines of that record
TypeFieldLines(lines) ==
    {j \in 2..(FirstRecordEnd(lines) - 1) : starts_with(trim(lines[j]), <<"T">>)}

\* the text of the record's type field as it stands in the input
TypeFieldText(lines) ==
    strip_prefix(trim(lines[CHOOSE j \in TypeFieldLines(lines) :
                                \A m \in TypeFieldLines(lines) : m <= j]),
                 <<"T">>)

\* C11: when the type field of an account record matches no recognized type
\* name in any spelling of case, the decoded kind is other(v) with v the text
\* of the field exactly as the input has it.
OtherKeepsOriginalText ==
    (/\ HasDocument
     /\ content # <<>>
     /\ IsAccountLine(content[1])
     /\ TypeFieldLines(content) # {}
     /\ to_lowercase(TypeFieldText(content)) \notin RecognizedTypeNames)
        => original.data.accounts[1].account_type
               = AccountType("Other", TypeFieldText(content))

\* the line after the fields of the transaction record that starts at
\* line 1: its terminator, or the end of the input
RecordEnd(lines) ==
    CHOOSE k \in 1..(Len(lines) + 1) :
        /\ \A j \in 1..(k - 1) : trim(lines[j]) # <<"^">>
        /\ k = Len(lines) + 1 \/ trim(lines[k]) = <<"^">>

\* the lines of that record that carry the tag
FieldLines(lines, tag) ==
    {j \in 1..(RecordEnd(lines) - 1) : starts_with(trim(lines[j]), tag)}

\* the content of the last line among js
LastContent(lines, js) ==
    strip_prefix(trim(lines[CHOOSE j \in js : \A m \in js : m <= j]), <<"X">>)

Matched ==
    {k \in 1..Len(data.transactions) :
         /\ data.transactions[k].date.year = call.year
         /\ data.transactions[k].date.month = call.month}

OfKind(kind) ==
    {k \in 1..Len(data.transactions) : data.transactions[k].transaction_type = kind}

\* the sum of the amounts of the transactions at the positions K
RECURSIVE Total(_)
Total(K) ==
    IF K = {} THEN 0
    ELSE data.transactions[CHOOSE k \in K : TRUE].amount
             + Total(K \ {CHOOSE k \in K : TRUE})

\* C13: a monthly report matches the transactions dated in its year and
\* month; income is the sum of the matched credits, expenses the sum of the
\* matched debits, other kinds add to neither, net is income less expenses
\* and the count is the number of matched transactions of all kinds.
MonthlyReportTotals ==
    call.op = "generate_monthly_report" =>
        /\ ~result.panicked
        /\ result.value.year = call.year
        /\ result.value.month = call.month
        /\ result.value.total_income = Total(Matched \cap OfKind("Credit"))
        /\ result.value.total_expenses = Total(Matched \cap OfKind("Debit"))
        /\ result.value.net_income
               = result.value.total_income - result.value.total_expenses
        /\ result.value.transaction_count = Cardinality(Matched)

\* A report over a debit and a transfer of the month, with a transaction of
\* the same month of another year in the document.
MonthlyReportWitness ==
    /\ call.op = "generate_monthly_report"
    /\ Matched \cap OfKind("Debit") # {}
    /\ Matched \cap OfKind("Transfer") # {}
    /\ \E k \in 1..Len(data.transactions) :
           /\ data.transactions[k].date.month = call.month
           /\ data.transactions[k].date.year # call.year
    /\ result.value.transaction_count = 2
    /\ result.value.total_expenses = 500

\* the month of the call holds one debit of 500, one credit of 3000 and
\* nothing else
ScenarioMonth ==
    /\ call.op = "generate_monthly_report"
    /\ Cardinality(Matched) = 2
    /\ \E k \in Matched \cap OfKind("Debit") : data.transactions[k].amount = 500
    /\ \E k \in Matched \cap OfKind("Credit") : data.transactions[k].amount = 3000

\* C14 as stated: the report of such a month has income 3000, expenses 500,
\* net 2300 and count 2.
ScenarioTwoAsStated ==
    ScenarioMonth =>
        /\ result.value.total_income = 3000
        /\ result.value.total_expenses = 500
        /\ result.value.net_income = 2300
        /\ result.value.transaction_count = 2

\* C14 as amended: the report of such a month has income 3000, expenses 500,
\* net 2500 and count 2.
ScenarioTwoNet ==
    ScenarioMonth =>
        /\ result.value.total_income = 3000
        /\ result.value.total_expenses = 500
        /\ result.value.net_income = 2500
        /\ result.value.transaction_count = 2

\* The report of such a month, from a document that holds a further debit
\* in the same month of another year.
ScenarioTwoWitness ==
    /\ ScenarioMonth
    /\ Len(data.transactions) = 3
    /\ \E k \in OfKind("Debit") \ Matched :
           data.transactions[k].date.month = call.month
    /\ result.value.net_income = 2500

\* the matched positions that carry the category label
MatchedWith(label) ==
    {k \in Matched : data.transactions[k].category = Some(label)}

\* C15: the category breakdown of a report has an entry for exactly the
\* labels on matched transactions, and each entry is the sum of the amounts
\* of the matched transactions with that label, whatever their kind.
BreakdownSumsAllKinds ==
    call.op = "generate_monthly_report" =>
        /\ DOMAIN result.value.category_breakdown
               = {Unwrap(data.transactions[k].category) :
                      k \in {m \in Matched : IsSome(data.transactions[m].category)}}
        /\ \A label \in DOMAIN result.value.category_breakdown :
               result.value.category_breakdown[label] = Total(MatchedWith(label))

\* A breakdown whose one entry sums a debit and a credit, while a label of
\* another month has no entry.
BreakdownWitness ==
    /\ call.op = "generate_monthly_report"
    /\ MatchedWith(sFood) \cap OfKind("Debit") # {}
    /\ MatchedWith(sFood) \cap OfKind("Credit") # {}
    /\ DOMAIN result.value.category_breakdown = {sFood}
    /\ result.value.category_breakdown[sFood] = 3500
    /\ contains(data.categories, sRent)

\* the group a transaction is ranked in
GroupOf(k) ==
    IF data.transactions[k].category = None THEN sUncategorized
    ELSE Unwrap(data.transactions[k].category)

\* the debits of a group
DebitsIn(group) == {k \in OfKind("Debit") : GroupOf(k) = group}

\* what C16 says of one entry of the ranking
EntryIsGroup(entry) ==
    /\ entry.total_amount = Total(DebitsIn(entry.category))
    /\ entry.transaction_count = Cardinality(DebitsIn(entry.category))
    /\ entry.average_amount.den > 0
    /\ entry.average_amount.num * entry.transaction_count
           = entry.total_amount * entry.average_amount.den
    /\ entry.percentage_of_total.den > 0
    /\ entry.percentage_of_total.num * Total(OfKind("Debit"))
           = 100 * entry.total_amount * entry.percentage_of_total.den

RECURSIVE SumOfTotals(_)
SumOfTotals(entries) ==
    IF entries = <<>> THEN 0
    ELSE Head(entries).total_amount + SumOfTotals(Tail(entries))

\* C16: the ranking has one entry per group of debits (debits without a
\* category form the group "Uncategorized"), with the group's sum, count,
\* mean and share of all debits; other kinds enter no entry, and the entry
\* totals add up to the sum of all debits.
RankingGroupsDebits ==
    call.op = "analyze_categories" =>
        /\ {result.value[i].category : i \in 1..Len(result.value)}
               = {GroupOf(k) : k \in OfKind("Debit")}
        /\ \A i, j \in 1..Len(result.value) :
               i # j => result.value[i].category # result.value[j].category
        /\ \A i \in 1..Len(result.value) : EntryIsGroup(result.value[i])
        /\ SumOfTotals(result.value) = Total(OfKind("Debit"))

\* A ranking of two groups, one of them "Uncategorized", with a share that
\* is no whole number, over a document that also holds a credit.
RankingWitness ==
    /\ call.op = "analyze_categories"
    /\ Len(result.value) = 2
    /\ \E i \in 1..2 : result.value[i].category = sUncategorized
    /\ \E i \in 1..2 : result.value[i].percentage_of_total.den > 1
    /\ OfKind("Credit") # {}

\* C17: the ranking is ordered by total, largest first; the test document's
\* totals 1100 and 450 come in that order.
RankingDescends ==
    call.op = "analyze_categories" =>
        /\ \A i \in 1..(Len(result.value) - 1) :
               result.value[i].total_amount >= result.value[i + 1].total_amount
        /\ data = create_test_data(TestRows) =>
               /\ Len(result.value) = 2
               /\ result.value[1].category = sGroceries
               /\ result.value[1].total_amount = 1100
               /\ result.value[2].category = sGas
               /\ result.value[2].total_amount = 450

\* The ranking of the test document.
RankingDescendsWitness ==
    /\ call.op = "analyze_categories"
    /\ data = create_test_data(TestRows)
    /\ result.value[1].total_amount > result.value[2].total_amount

\* C18: no call of analyze_categories, analyze_spending_trends or
\* detect_anomalies divides by zero; a share of a grand total of zero is
\* zero, and with a lookback of zero the monthly average is zero and the
\* trend stable.
NoDivisionByZero ==
    /\ ~result.panicked
    /\ (call.op = "analyze_categories" /\ Total(OfKind("Debit")) = 0) =>
           \A i \in 1..Len(result.value) :
               result.value[i].percentage_of_total = Decimal_from(0)
    /\ (call.op = "analyze_spending_trends" /\ call.months_back = 0) =>
           \A i \in 1..Len(result.value) :
               /\ result.value[i].monthly_amounts = <<>>
               /\ result.value[i].average_monthly = Decimal_from(0)
               /\ result.value[i].trend_direction = "Stable"

\* A ranking over debits that are all zero.
ZeroTotalWitness ==
    /\ call.op = "analyze_categories"
    /\ ~result.panicked
    /\ OfKind("Debit") # {}
    /\ Total(OfKind("Debit")) = 0
    /\ Len(result.value) = 1
    /\ result.value[1].transaction_count >= 1

\* the sum of the amounts of the pairs first..last of a slice
RECURSIVE SliceSum(_, _, _)
SliceSum(s, first, last) ==
    IF first > last THEN 0 ELSE s[first][2] + SliceSum(s, first + 1, last)

\* ten times the difference of the two half means, and the first half mean,
\* both scaled by the product of the two half lengths h and n - h
ScaledDifference(s, h) ==
    10 * (SliceSum(s, h + 1, Len(s)) * h - SliceSum(s, 1, h) * (Len(s) - h))

ScaledThreshold(s, h) == SliceSum(s, 1, h) * (Len(s) - h)

ExpectedDirection(s, h) ==
    IF Len(s) < 2 THEN "Stable"
    ELSE IF ScaledDifference(s, h) > ScaledThreshold(s, h) THEN "Increasing"
    ELSE IF ScaledDifference(s, h) < 0 - ScaledThreshold(s, h) THEN "Decreasing"
    ELSE "Stable"

MonthNumber(dt) == dt.year * 12 + (dt.month - 1)

\* the debits of a category dated in the calendar month numbered n
DebitsInMonth(category, n) ==
    {k \in OfKind("Debit") :
         /\ data.transactions[k].category = Some(category)
         /\ MonthNumber(data.transactions[k].date) = n}

\* what C20 says of position k of a trend's monthly sequence
IsWindowMonth(trend, k) ==
    /\ trend.monthly_amounts[k][1]
           = month_label((MonthNumber(call.now) - (call.months_back - k)) \div 12,
                         ((MonthNumber(call.now) - (call.months_back - k)) % 12) + 1)
    /\ trend.monthly_amounts[k][2]
           = Total(DebitsInMonth(trend.category,
                                 MonthNumber(call.now) - (call.months_back - k)))

\* C20: for every current date and lookback N each category's monthly
\* sequence has N entries, the N consecutive calendar months that end with
\* the current month, in order, each with the sum of the category's debits
\* dated in that month.
TrendWindowIsCalendarMonths ==
    call.op = "analyze_spending_trends" =>
        /\ {result.value[i].category : i \in 1..Len(result.value)} = categories_of(data)
        /\ \A i \in 1..Len(result.value) :
               /\ Len(result.value[i].monthly_amounts) = call.months_back
               /\ \A k \in 1..call.months_back : IsWindowMonth(result.value[i], k)

\* the debits above three times the mean of the debits of their group
AboveThreeMeans ==
    {k \in OfKind("Debit") :
         data.transactions[k].amount * Cardinality(DebitsIn(GroupOf(k)))
             > 3 * Total(DebitsIn(GroupOf(k)))}

\* the i-th smallest element of a set of positions
Nth(K, i) == CHOOSE k \in K : Cardinality({j \in K : j <= k}) = i

LargeDebitIsFlagged ==
    (call.op = "detect_anomalies" /\ data = test_anomaly_data) =>
        /\ Len(result.value) = 1
        /\ result.value[1].amount = 5000

OwnedByCalled ==
    {k \in 1..Len(data.transactions) :
         data.transactions[k].account_id = call.account_id}

\* C24: calculate_account_balance(id) is the sum of the amounts of the
\* transactions of account id that are not debits, less the sum of the
\* amounts of its debits; the transactions of other accounts and the stored
\* balance of the account do not enter it.
BalanceIsCreditsLessDebits ==
    call.op = "calculate_account_balance" =>
        result.value = Total(OwnedByCalled \ OfKind("Debit"))
                           - Total(OwnedByCalled \cap OfKind("Debit"))

\* The document of the test, a credit of 1000 and a debit of 250 of one
\* owner, on an account whose stored balance is 500, gives 750.
BalanceWitness ==
    /\ call.op = "calculate_account_balance"
    /\ call.account_id = 1
    /\ Len(data.transactions) = 2
    /\ data.transactions[1].amount = 1000
    /\ data.transactions[2].transaction_type = "Debit"
    /\ data.transactions[2].amount = 250
    /\ OwnedByCalled = {1, 2}
    /\ Len(data.accounts) = 2
    /\ data.accounts[1].balance = 500
    /\ result.value = 750

\* A transaction of another account is left out of the balance.
OtherAccountWitness ==
    /\ call.op = "calculate_account_balance"
    /\ call.account_id = 2
    /\ OwnedByCalled = {2}
    /\ Len(data.transactions) = 3
    /\ result.value = 3

NonEmptyLines(q) == SelectSeq(q, LAMBDA l : l # <<>>)

RECURSIVE Concat(_)
Concat(qs) == IF qs = <<>> THEN <<>> ELSE Head(qs) \o Concat(Tail(qs))

\* the positions of the transactions that carry the id of an account
OwnedPositions(account) ==
    {k \in 1..Len(data.transactions) :
         data.transactions[k].account_id = account.id}

TextOf(option) == IF IsSome(option) THEN Unwrap(option) ELSE <<>>

\* the lines of a transaction record in their order, each with whether it
\* is to be present
RecordCandidates(t) ==
    << <<TRUE, <<"D">> \o FormatDate(t.date)>>,
       <<TRUE, <<"T">> \o FormatDecimal(export_amount(t))>>,
       <<IsSome(t.payee), <<"P">> \o TextOf(t.payee)>>,
       <<IsSome(t.category), <<"L">> \o TextOf(t.category)>>,
       <<IsSome(t.memo), <<"M">> \o TextOf(t.memo)>>,
       <<t.cleared, <<"C", "*">> >>,
       <<TRUE, <<"^">> >> >>

Second(pairs) == [i \in 1..Len(pairs) |-> pairs[i][2]]

RecordLayout(t) == Second(SelectSeq(RecordCandidates(t), LAMBDA c : c[1]))

\* the records of the transactions at the positions K, in stored order
RecordsLayout(K) ==
    Concat([i \in 1..Cardinality(K) |-> RecordLayout(data.transactions[Nth(K, i)])])

SectionLayout(account) ==
    export_account(account)
    \o (IF OwnedPositions(account) = {} THEN <<>>
        ELSE <<(sType \o account_type_to_qif(account.account_type))>>
             \o RecordsLayout(OwnedPositions(account)))

DistinctAccountIds ==
    \A i, j \in 1..Len(data.accounts) :
        data.accounts[i].id = data.accounts[j].id => i = j

EveryTransactionOwned ==
    \A k \in 1..Len(data.transactions) :
        \E i \in 1..Len(data.accounts) :
            data.transactions[k].account_id = data.accounts[i].id

\* Ids are handed out in the order of creation: the owner of a decoded
\* transaction is the account created last before it.
OwnerIsLatestAccount ==
    \A k \in 1..Len(data.transactions) :
        \E i \in 1..Len(data.accounts) :
            /\ data.transactions[k].account_id = data.accounts[i].id
            /\ data.accounts[i].id < data.transactions[k].id
            /\ \A j \in 1..Len(data.accounts) :
                   data.accounts[j].id < data.transactions[k].id =>
                       data.accounts[j].id <= data.accounts[i].id

AccountLinePositions ==
    {p \in 1..Len(exported_qif) : exported_qif[p] = sAccount}

\* the non-empty lines of the output from the i-th account header up to the
\* next one
SectionLines(i) ==
    NonEmptyLines(
        SubSeq(exported_qif, Nth(AccountLinePositions, i),
               IF i < Cardinality(AccountLinePositions)
               THEN Nth(AccountLinePositions, i + 1) - 1
               ELSE Len(exported_qif)))

AfterTypeHeader(section) ==
    IF \E p \in 1..Len(section) : starts_with(section[p], sType)
    THEN SubSeq(section,
                1 + CHOOSE p \in 1..Len(section) : starts_with(section[p], sType),
                Len(section))
    ELSE <<>>

\* C30: when the account ids of a document are pairwise distinct and every
\* transaction carries the id of one of its accounts, the output holds every
\* transaction exactly once, in the type section that follows its owner's
\* account record; every document the decoder produces is such a document,
\* each transaction owned by the account of the latest account section
\* before it.
ExportIsComplete ==
    phase = "exported" =>
        /\ content # <<>> =>
               /\ DistinctAccountIds
               /\ EveryTransactionOwned
               /\ OwnerIsLatestAccount
        /\ (DistinctAccountIds /\ EveryTransactionOwned) =>
               /\ Cardinality(AccountLinePositions) = Len(data.accounts)
               /\ \A i \in 1..Len(data.accounts) :
                      AfterTypeHeader(SectionLines(i)) =
                          RecordsLayout(OwnedPositions(data.accounts[i]))
               /\ Cardinality({p \in 1..Len(exported_qif) :
                                   exported_qif[p] = <<"^">>})
                      = Len(data.accounts) + Len(data.transactions)

\* A decoded document of two accounts, the first owning one transaction and
\* the second two, was exported.
ExportIsCompleteWitness ==
    /\ phase = "exported"
    /\ content = two_sections
    /\ Len(data.accounts) = 2
    /\ Len(data.transactions) = 3
    /\ Cardinality(OwnedPositions(data.accounts[2])) = 2
    /\ Cardinality(AccountLinePositions) = 2

\* A caller's document of two accounts and three transactions, each owned,
\* was exported.
CallerExportWitness ==
    /\ phase = "exported"
    /\ content = <<>>
    /\ DistinctAccountIds
    /\ EveryTransactionOwned
    /\ Len(data.accounts) = 2
    /\ Len(data.transactions) = 3
    /\ OwnedPositions(data.accounts[1]) # {}
    /\ OwnedPositions(data.accounts[2]) # {}

\* the content with one empty line put after its first p lines
WithEmptyLineAfter(p) ==
    SubSeq(content, 1, p) \o << <<>> >> \o SubSeq(content, p + 1, Len(content))

\* C26: an empty line is inert wherever it stands: the content with one
\* more empty line, between sections, after a header, between records or
\* inside a record, decodes to the same accounts and transactions.
EmptyLinesAreInert ==
    phase = "imported" =>
        \A p \in 0..Len(content) :
            /\ parse_qif_content(WithEmptyLineAfter(p), 1).ok
            /\ parse_qif_content(WithEmptyLineAfter(p), 1).data = data

\* whether the line at p is an account header with no record line after it
IsBareAccountHeader(p) ==
    /\ starts_with(content[p], sAccount)
    /\ \/ p = Len(content)
       \/ content[p + 1] = <<>>
       \/ starts_with(content[p + 1], <<"!">>)

\* C27: a section with no records yields no entities: when every account
\* header of the content is directly followed by an empty line, a header or
\* the end, the document has no account; a type header directly followed
\* by one of these adds no transaction.
EmptySectionsYieldNothing ==
    (/\ phase = "imported"
     /\ \A p \in 1..Len(content) :
            starts_with(content[p], sAccount) => IsBareAccountHeader(p))
        => data.accounts = <<>>

\* C28: every account header line yields exactly one account, also when the
\* transaction record before it has no terminator.
EveryAccountHeaderYieldsAnAccount ==
    phase = "imported" =>
        Len(data.accounts) =
            Cardinality({p \in 1..Len(content) : starts_with(content[p], sAccount)})

\* the cursor never passes the end of the lines: counted from 0 as in the
\* source it is at most their number
CursorInRange == scan.i - 1 <= Len(content)

\* at the head of each loop the cursor is past the line at which the
\* previous iteration of that loop began
IterationsAdvance ==
    /\ scan.pc = "scanner" => scan.i > scan.scanner_head
    /\ scan.pc = "account" => scan.i > scan.account_head
    /\ scan.pc = "section" => scan.i > scan.section_head
    /\ scan.pc = "record" => scan.i > scan.record_head

ScanFinished == scan.pc \in {"done", "failed"}

\* C29: the decoder terminates on every input: every iteration of the
\* scanner, of the account record loop, of the section loop (also the one
\* after a failed record) and of the record loop that returns to the head
\* of its loop has advanced the cursor by at least one line, the cursor
\* never exceeds the number of lines, and the run ends.
DecoderTerminates ==
    /\ [](CursorInRange /\ IterationsAdvance)
    /\ <>ScanFinished

\* A run that ended after a record failed on its first line, with the
\* document parse_qif_content returns.
DecoderTerminatesWitness ==
    /\ scan.pc = "done"
    /\ scan.i = Len(content) + 1
    /\ \E p \in 1..Len(content) :
           /\ content[p] = <<"D", "x">>
           /\ p > 1
           /\ starts_with(content[p - 1], sType)
    /\ scan.data = parse_qif_content(content, 1).data
    /\ scan.data.transactions # <<>>

\* the run step by step ends as parse_qif_content does
ScanAgreesWithParse ==
    /\ scan.pc = "done" =>
           /\ parse_qif_content(content, 1).ok
           /\ scan.data = parse_qif_content(content, 1).data
           /\ scan.next_id = parse_qif_content(content, 1).next_id
    /\ scan.pc = "failed" => ~parse_qif_content(content, 1).ok

=============================================================================
